---- MODULE Spec2Model ----
(***************************************************************************)
(* Peer handshake of zebra-network (src/zebra-network/src/peer/handshake.rs) *)
(*                                                                         *)
(* Two handshake tasks of one node share the `nonces` set, the chain tip   *)
(* and the address-book channel.  "out" is called with an OutboundDirect   *)
(* connected address and "in" with an InboundDirect one.  When selfConn    *)
(* holds the two tasks are the two ends of one connection (the node dialled *)
(* its own listener); otherwise each talks to an external peer that may    *)
(* send any message, close the stream or break it at any time.             *)
(*                                                                         *)
(* Every value of pc is an await point of Handshake::call /                *)
(* negotiate_version; the code between two awaits is one action.           *)
(***************************************************************************)
EXTENDS Integers, Sequences, FiniteSets, TLC

VARIABLES
    selfConn,          \* the two handshakes are the two ends of one connection
    tip,               \* best chain tip height read by minimum_peer_version
    nonces,            \* Handshake.nonces: the process-wide HashSet<Nonce>
    book_len,          \* MetaAddrChanges queued in the address_book_updater channel
    pc,                \* await point of each handshake task
    result,            \* what the future returned by call() resolved to
    local_nonce,       \* negotiate_version: local_nonce
    remote,            \* negotiate_version: the peer's Version message, once read
    remote_version,    \* negotiate_version: remote_version, once the checks passed
    remote_canonical_addr, \* negotiate_version: remote_canonical_addr, until it is used
    wire,              \* messages in flight to a handshake from its self-connected partner
    closed,            \* the handshake dropped its end of the stream
    log,               \* protocol events of each handshake, in order
    codec_version,     \* version installed in the connection's Codec
    tracker,           \* who owns the request's ConnectionTracker
    tracker_drops,     \* how many times the ConnectionTracker was dropped
    open_connections,  \* the open connection count the trackers keep
    pending,           \* address-book changes the handshake still has to send
    updates,           \* address-book changes the handshake sent, in order
    spawned,           \* the connection task and the heartbeat task were spawned
    connected_addr,    \* the ConnectedAddr of the connection the two tasks below serve
    shutdown_rx,       \* the oneshot the Client signals the heartbeat task with
    tick,              \* the heartbeat interval has a tick ready
    hb_pc,             \* await point of the heartbeat task
    hb_err,            \* the error the heartbeat task holds while it tells the address book
    hb_result,         \* what the heartbeat task returned
    pings,             \* heartbeat Ping requests queued to the connection so far
    peer_pc,           \* await point of the instrumented inbound stream peer_rx
    peer_item,         \* the item the inbound stream read last (a message or a read error)
    delivered,         \* the item the inbound stream yielded last to the connection task
    inbound,           \* how many items the inbound stream has yielded
    conn_updates,      \* address-book changes sent for this connection, in order
    inv_last,          \* inventory changes the last item made the stream broadcast
    inv_count,         \* how many inventory changes were broadcast
    req,               \* Verifier::call: the Request being verified
    v_pc,              \* the step of Verifier::call that runs next
    v_result,          \* what the future returned by Verifier::call resolved to
    state_requests,    \* the requests the verification sent to the state service, in order
    input_index,       \* spent_utxos: the position of the input the loop is at
    spent_outputs,     \* spent_utxos: the inputs whose output was pushed, in order
    spent_utxos,       \* spent_utxos: the map from resolved outpoint to where its UTXO came from
    lookup_elapsed,    \* spent_utxos: the seconds the outstanding UTXO lookup has waited
    async_checks,      \* AsyncChecks: how many checks of each kind were dispatched
    failed_checks,     \* AsyncChecks: the kinds of the checks that completed with an error
    ac_pc,             \* an AsyncChecks set: being built, being checked, or check returned
    checks_a,          \* the futures of the AsyncChecks `a`
    checks_b,          \* the futures of the AsyncChecks `b`
    completed,         \* the futures that completed, with their outputs, in completion order
    check_result,      \* what AsyncChecks::check returned
    fn_input,          \* the arguments a check of the transaction is called with
    fn_output,         \* what the check returned
    rate_limiter,      \* Verifier.rate_limiter: the FeeRateLimiter behind the Mutex
    holder,            \* the invocation that holds the Mutex of the limiter, 0 for none
    callers            \* the invocations that share the limiter, at their fee check

\* the variables of one established connection: its inbound stream and its heartbeat
connVars == <<connected_addr, shutdown_rx, tick, hb_pc, hb_err, hb_result, pings,
              peer_pc, peer_item, delivered, inbound, conn_updates, inv_last, inv_count>>

\* the variables of one transaction verification
txVars == <<req, v_pc, v_result, state_requests, input_index, spent_outputs, spent_utxos,
            lookup_elapsed, async_checks, failed_checks>>

\* the variables of one AsyncChecks set built as a.and(b)
checkVars == <<ac_pc, checks_a, checks_b, completed, check_result>>

\* the variables of one call of a check that reads its arguments only
fnVars == <<fn_input, fn_output>>

\* the fee-rate limiter and the invocations that share it
limiterVars == <<rate_limiter, holder, callers>>

\* the variables of the transaction verifier
verifierVars == <<txVars, checkVars, fnVars, limiterVars>>

\* everything but the handshakes and the address-book channel
restOfNode == <<connVars, verifierVars>>

vars == <<selfConn, tip, nonces, book_len, pc, result, local_nonce, remote,
          remote_version, remote_canonical_addr, wire, closed, log, codec_version, tracker, tracker_drops,
          open_connections, pending, updates, spawned, restOfNode>>

----------------------------------------------------------------------------
(* Bounds of the model *)

\* log entries kept for discarded Version and Verack messages, over both handshakes
MaxSkipped == 1
\* capacity of the bounded address_book_updater channel
BookCapacity == 1
\* heartbeat Ping requests one heartbeat task queues
MaxPings == 2
\* items the inbound stream of one connection yields
MaxInbound == 2
\* entries of one Inv or NotFound message
MaxInv == 2

----------------------------------------------------------------------------
(* Values *)

Handshakes == {"out", "in"}

Partner(h) == IF h = "out" THEN "in" ELSE "out"

\* constants::CURRENT_NETWORK_PROTOCOL_VERSION, on an ordinal scale of versions
CURRENT_NETWORK_PROTOCOL_VERSION == 3

\* versions a peer can announce: the older one, ours, a newer one
Versions == (CURRENT_NETWORK_PROTOCOL_VERSION - 1)..(CURRENT_NETWORK_PROTOCOL_VERSION + 1)

\* the height at which the network upgrade that raises the minimum version activates
ActivationTip == 1

\* chain tip heights: before the activation, and from it on
Heights == 0..ActivationTip

\* MinimumPeerVersion::current(): the floor rises once the tip passes the activation
MinimumPeerVersionCurrent(height) ==
    IF height >= ActivationTip
        THEN CURRENT_NETWORK_PROTOCOL_VERSION
        ELSE CURRENT_NETWORK_PROTOCOL_VERSION - 1

\* Nonce::default(): a random 64-bit value; the draws of distinct handshakes differ
NonceDefault(h) == IF h = "out" THEN 1 ELSE 2

\* nonces a peer can put in its Version: either local nonce, or a foreign one
Nonces == {NonceDefault(h) : h \in Handshakes} \cup {3}

\* socket addresses <<ip, port>>; ip 0 is the unspecified address, port 0 is unset
UnspecifiedAddr == <<0, 0>>
ListenAddr == <<1, 1>>
\* what an external peer can give as its own address in Version.address_from:
\* nothing, its ip alone, its port alone
CanonicalAddrs == {UnspecifiedAddr, <<2, 0>>, <<0, 2>>}

NoAddr == <<>>
NoMsg == [type |-> "None"]
NoVersion == 0

\* ConnectedAddr of each request
ConnectedAddrOf(h) ==
    IF h = "out"
        THEN [kind |-> "OutboundDirect", addr |-> ListenAddr]
        ELSE [kind |-> "InboundDirect", maybe_ip |-> 1, transient_port |-> 2]

VersionMsg(n, v, a) == [type |-> "Version", nonce |-> n, version |-> v, address_from |-> a]
Verack == [type |-> "Verack"]
Ping == [type |-> "Ping"]

\* everything an external peer can send
ExternalMessages ==
    {VersionMsg(n, v, a) : n \in Nonces, v \in Versions, a \in CanonicalAddrs}
        \cup {Verack, Ping}

Min(a, b) == IF a <= b THEN a ELSE b

----------------------------------------------------------------------------
(* ConnectedAddr *)

\* get_address_book_addr, with every direct connection tracked in the address book
get_address_book_addr_direct(c) ==
    CASE c.kind = "OutboundDirect" -> c.addr
      [] c.kind = "InboundDirect" -> <<c.maybe_ip, c.transient_port>>
      [] OTHER -> NoAddr

get_address_book_addr(c) ==
    IF c.kind = "OutboundDirect" THEN c.addr ELSE NoAddr

\* get_transient_addr, with the unspecified address standing for an isolated peer
get_transient_addr_unspecified(c) ==
    CASE c.kind = "OutboundDirect" -> c.addr
      [] c.kind = "InboundDirect" -> <<c.maybe_ip, c.transient_port>>
      [] c.kind = "OutboundProxy" -> c.transient_local_addr
      [] c.kind = "InboundProxy" -> c.transient_addr
      [] OTHER -> UnspecifiedAddr

get_transient_addr(c) ==
    CASE c.kind = "OutboundDirect" -> c.addr
      [] c.kind = "InboundDirect" -> <<c.maybe_ip, c.transient_port>>
      [] c.kind = "OutboundProxy" -> c.transient_local_addr
      [] c.kind = "InboundProxy" -> c.transient_addr
      [] OTHER -> NoAddr

\* FixupCanonical, with the zero port left as the peer gave it
FixupCanonicalIp(addr, canonical_remote) ==
    << IF canonical_remote[1] = 0 THEN addr[1] ELSE canonical_remote[1],
       canonical_remote[2] >>

\* the OutboundDirect fixup of an unspecified ip and of a zero port
FixupCanonical(addr, canonical_remote) ==
    << IF canonical_remote[1] = 0 THEN addr[1] ELSE canonical_remote[1],
       IF canonical_remote[2] = 0 THEN addr[2] ELSE canonical_remote[2] >>

get_alternate_addrs(c, canonical_remote) ==
    CASE c.kind = "OutboundDirect" ->
            IF FixupCanonical(c.addr, canonical_remote) # c.addr
                THEN << FixupCanonical(c.addr, canonical_remote) >>
                ELSE << >>
      [] c.kind = "InboundDirect" ->
            IF canonical_remote # <<c.maybe_ip, canonical_remote[2]>>
                THEN << canonical_remote, <<c.maybe_ip, canonical_remote[2]>> >>
                ELSE << canonical_remote >>
      [] c.kind \in {"OutboundProxy", "InboundProxy"} -> << canonical_remote >>
      [] OTHER -> << >>

----------------------------------------------------------------------------
(* State after construction *)

InFlight == {"lock_insert", "send_version", "wait_version", "check_nonce",
             "send_verack", "wait_verack", "book_send"}

SkipEvents == {"SkipVersion", "SkipVerack"}

\* no handshake was called yet
HandshakesIdle ==
    /\ nonces = {}
    /\ pc = [h \in Handshakes |-> "idle"]
    /\ result = [h \in Handshakes |-> "none"]
    /\ local_nonce = [h \in Handshakes |-> 0]
    /\ remote = [h \in Handshakes |-> NoMsg]
    /\ remote_version = [h \in Handshakes |-> NoVersion]
    /\ remote_canonical_addr = [h \in Handshakes |-> NoAddr]
    /\ wire = [h \in Handshakes |-> << >>]
    /\ closed = [h \in Handshakes |-> FALSE]
    /\ log = [h \in Handshakes |-> << >>]
    /\ codec_version = [h \in Handshakes |-> NoVersion]
    /\ tracker = [h \in Handshakes |-> "request"]
    /\ tracker_drops = [h \in Handshakes |-> 0]
    /\ open_connections = Cardinality(Handshakes)
    /\ pending = [h \in Handshakes |-> << >>]
    /\ updates = [h \in Handshakes |-> << >>]
    /\ spawned = [h \in Handshakes |-> FALSE]

\* no connection is established: its tasks do not exist
NoConnection ==
    /\ connected_addr = [kind |-> "Isolated"]
    /\ shutdown_rx = "open"
    /\ tick = FALSE
    /\ hb_pc = "unspawned"
    /\ hb_err = "none"
    /\ hb_result = "none"
    /\ pings = 0
    /\ peer_pc = "unspawned"
    /\ peer_item = NoMsg
    /\ delivered = NoMsg
    /\ inbound = 0
    /\ conn_updates = << >>
    /\ inv_last = << >>
    /\ inv_count = 0

\* the longest list of transparent inputs of a transaction
MaxInputs == 2

\* no Request was given to the verifier
NoRequest == [kind |-> "None"]

\* orchard::Flags
Flags == {"ENABLE_SPENDS", "ENABLE_OUTPUTS"}

\* NetworkUpgrade, in activation order
NetworkUpgrades == <<"Genesis", "BeforeOverwinter", "Overwinter", "Sapling",
                     "Blossom", "Heartwood", "Canopy", "Nu5">>

NetworkUpgrade == {NetworkUpgrades[i] : i \in DOMAIN NetworkUpgrades}

\* the position of a network upgrade in the activation order
UpgradeRank(u) == CHOOSE i \in DOMAIN NetworkUpgrades : NetworkUpgrades[i] = u

\* the checks verify_v4_transaction and verify_v5_transaction hand to the
\* script verifier and to the proof and signature verifiers
CheckKinds == {"script", "groth16_joinsplit", "ed25519", "groth16_spend",
               "redjubjub_spend_auth", "groth16_output", "redjubjub_binding",
               "halo2", "redpallas_spend_auth", "redpallas_binding"}

\* AsyncChecks::new()
NoChecks == [k \in CheckKinds |-> 0]

\* the transparent inputs a transaction may list
TxInputs == UNION {[1..n -> {"Coinbase", "PrevOut"}] : n \in 0..MaxInputs}

\* the most JoinSplits, Sapling spends and outputs and Orchard actions, taken
\* together, of a transaction
MaxShielded == 2

\* Transaction: the version and the contents the verifier's steps read by
\* count; V1 has no shielded data, V2 and V3 have JoinSplits, V4 has JoinSplits
\* and Sapling data, V5 has Sapling and Orchard data
Transactions ==
    {t \in [version : 1..5, inputs : TxInputs, outputs : 0..1,
            joinsplit_count : 0..MaxShielded, sapling_spends : 0..MaxShielded,
            sapling_outputs : 0..MaxShielded, orchard_actions : 0..MaxShielded,
            orchard_flags : SUBSET Flags] :
        /\ t.joinsplit_count + t.sapling_spends + t.sapling_outputs + t.orchard_actions
              <= MaxShielded
        /\ t.version \in {1, 5} => t.joinsplit_count = 0
        /\ t.version < 4 => t.sapling_spends = 0 /\ t.sapling_outputs = 0
        /\ t.version < 5 => t.orchard_actions = 0
        /\ t.orchard_actions = 0 => t.orchard_flags = {}}

\* the positions of the PrevOut inputs of a transaction
PrevOuts(tx) == {i \in DOMAIN tx.inputs : tx.inputs[i] = "PrevOut"}

\* Request::Block: known_utxos holds the positions of the inputs whose outpoint
\* it knows, upgrade is the network upgrade at the request's height
Block(transaction, upgrade, known_utxos, last_tx_verify_data) ==
    [kind |-> "Block", transaction |-> transaction, upgrade |-> upgrade,
     known_utxos |-> known_utxos, last_tx_verify_data |-> last_tx_verify_data]

\* Request::Mempool; amounts holds what Verifier::call computes for the
\* transaction once its UTXOs are known: the miner fee, the serialized size and
\* the sum of the transparent outputs
Mempool(transaction, upgrade, check_low_fee, reject_absurd_fee, amounts) ==
    [kind |-> "Mempool", transaction |-> transaction, upgrade |-> upgrade,
     check_low_fee |-> check_low_fee, reject_absurd_fee |-> reject_absurd_fee,
     amounts |-> amounts]

\* the parts a token of the limiter is divided in
TokenParts == 2

\* the capacity of the limiter, in tokens
LimiterCapacity == 1

\* the latest time Utc::now answers
MaxNow == 2

\* the callers of the limiter
MaxCallers == 2
Callers == 1..MaxCallers

\* FeeRateLimiter::new; calls and admitted count the calls of check_rate_limit
\* and those that it allowed, refilled adds up the parts the refills added
NewLimiter ==
    [tokens |-> LimiterCapacity * TokenParts, last_refill |-> 0,
     calls |-> 0, admitted |-> 0, refilled |-> 0]

\* the limiter after earlier verifications
Limiters ==
    {[NewLimiter EXCEPT !.tokens = t] : t \in 0..(LimiterCapacity * TokenParts)}

\* no invocation is at its fee check
NoCallers ==
    /\ holder = 0
    /\ callers = [i \in Callers |-> [pc |-> "idle", now |-> 0, tokens |-> 0, result |-> "none"]]

\* the limiter is new and nothing calls it
NoLimiterUse == rate_limiter = NewLimiter /\ NoCallers

\* no transaction is being verified
NoVerification ==
    /\ req = NoRequest
    /\ v_pc = "idle"
    /\ v_result = "none"
    /\ state_requests = << >>
    /\ input_index = 1
    /\ spent_outputs = << >>
    /\ spent_utxos = << >>
    /\ lookup_elapsed = 0
    /\ async_checks = NoChecks
    /\ failed_checks = {}

\* no AsyncChecks set but that of the verification
NoAsyncChecks ==
    /\ ac_pc = "idle"
    /\ checks_a = {}
    /\ checks_b = {}
    /\ completed = << >>
    /\ check_result = "none"

\* no check is called on its own
NoCall ==
    /\ fn_input = [fn |-> "None"]
    /\ fn_output = "none"

\* the transaction verifier is idle
VerifierIdle == NoVerification /\ NoAsyncChecks /\ NoCall /\ NoLimiterUse

Init ==
    /\ selfConn \in BOOLEAN
    /\ tip \in Heights
    /\ book_len = 0
    /\ HandshakesIdle
    /\ NoConnection
    /\ VerifierIdle

----------------------------------------------------------------------------
(* Ends of the handshake future *)

\* Fail, with the ConnectionTracker kept alive outside the future
FailKeepingTracker(h, err) ==
    /\ pc' = [pc EXCEPT ![h] = "failed"]
    /\ result' = [result EXCEPT ![h] = err]
    /\ remote' = [remote EXCEPT ![h] = NoMsg]
    /\ remote_version' = [remote_version EXCEPT ![h] = NoVersion]
    /\ remote_canonical_addr' = [remote_canonical_addr EXCEPT ![h] = NoAddr]
    /\ pending' = [pending EXCEPT ![h] = << >>]
    /\ closed' = [closed EXCEPT ![h] = TRUE]
    /\ UNCHANGED <<tracker, tracker_drops, open_connections>>

\* the future ends with an error (or is dropped by the timeout): everything it
\* owns is dropped, the stream and the ConnectionTracker included
Fail(h, err) ==
    /\ pc' = [pc EXCEPT ![h] = "failed"]
    /\ result' = [result EXCEPT ![h] = err]
    /\ remote' = [remote EXCEPT ![h] = NoMsg]
    /\ remote_version' = [remote_version EXCEPT ![h] = NoVersion]
    /\ remote_canonical_addr' = [remote_canonical_addr EXCEPT ![h] = NoAddr]
    /\ pending' = [pending EXCEPT ![h] = << >>]
    /\ closed' = [closed EXCEPT ![h] = TRUE]
    /\ tracker' = [tracker EXCEPT ![h] = "dropped"]
    /\ tracker_drops' = [tracker_drops EXCEPT ![h] = @ + 1]
    /\ open_connections' = open_connections - 1

\* what the send and receive halves of the stream append to the other end
Transmit(h, m) ==
    IF selfConn
        THEN wire' = [wire EXCEPT ![Partner(h)] = Append(@, m)]
        ELSE UNCHANGED wire

\* the number of queued changes the address-book channel still takes
BookRoom == BookCapacity - book_len

\* the changes of `queue` that are sent before the task has to wait for room
SentNow(queue) == SubSeq(queue, 1, Min(Len(queue), BookRoom))
Waiting(queue) == SubSeq(queue, Min(Len(queue), BookRoom) + 1, Len(queue))

\* NegotiatedVersion, taking the peer's version as it is
NegotiatedVersionOfPeer(v) == v

\* the version the codec is reconfigured to
NegotiatedVersion(v) == Min(v, CURRENT_NETWORK_PROTOCOL_VERSION)

\* AfterNegotiation, with the tasks spawned before the address book is told
AfterNegotiationSpawnFirst(h, queue, events) ==
    /\ updates' = [updates EXCEPT ![h] = @ \o SentNow(queue)]
    /\ book_len' = book_len + Len(SentNow(queue))
    /\ pending' = [pending EXCEPT ![h] = Waiting(queue)]
    /\ remote_canonical_addr' = [remote_canonical_addr EXCEPT ![h] = NoAddr]
    /\ spawned' = [spawned EXCEPT ![h] = TRUE]
    /\ IF Waiting(queue) = << >>
          THEN /\ pc' = [pc EXCEPT ![h] = "running"]
               /\ result' = [result EXCEPT ![h] = "Client"]
               /\ codec_version' =
                    [codec_version EXCEPT ![h] = NegotiatedVersion(remote_version[h])]
               /\ tracker' = [tracker EXCEPT ![h] = "connection"]
               /\ log' = [log EXCEPT ![h] = (@ \o events) \o << "Client" >>]
          ELSE /\ pc' = [pc EXCEPT ![h] = "book_send"]
               /\ log' = [log EXCEPT ![h] = @ \o events]
               /\ UNCHANGED <<result, codec_version, tracker>>

\* Handshake::call after negotiate_version returned Ok: send `queue` to the
\* address book as far as the channel has room; once every change is sent,
\* reconfigure the codec, build the Connection (which takes the tracker),
\* spawn both tasks and return the Client
AfterNegotiation(h, queue, events) ==
    /\ updates' = [updates EXCEPT ![h] = @ \o SentNow(queue)]
    /\ book_len' = book_len + Len(SentNow(queue))
    /\ pending' = [pending EXCEPT ![h] = Waiting(queue)]
    /\ remote_canonical_addr' = [remote_canonical_addr EXCEPT ![h] = NoAddr]
    /\ IF Waiting(queue) = << >>
          THEN /\ pc' = [pc EXCEPT ![h] = "running"]
               /\ result' = [result EXCEPT ![h] = "Client"]
               /\ codec_version' =
                    [codec_version EXCEPT ![h] = NegotiatedVersion(remote_version[h])]
               /\ tracker' = [tracker EXCEPT ![h] = "connection"]
               /\ spawned' = [spawned EXCEPT ![h] = TRUE]
               /\ log' = [log EXCEPT ![h] = (@ \o events) \o << "Client" >>]
          ELSE /\ pc' = [pc EXCEPT ![h] = "book_send"]
               /\ log' = [log EXCEPT ![h] = @ \o events]
               /\ UNCHANGED <<result, codec_version, tracker, spawned>>

\* the changes of Handshake::call with Responded sent for the address of the
\* peer's Version
BookChangesOfCanonical(c, canonical_remote) ==
    [i \in 1..Len(get_alternate_addrs(c, canonical_remote)) |->
        <<"Alternate", get_alternate_addrs(c, canonical_remote)[i]>>]
    \o (IF get_address_book_addr(c) # NoAddr
            THEN << <<"Responded", FixupCanonical(c.addr, canonical_remote)>> >>
            ELSE << >>)

\* the changes Handshake::call sends for connected address c once the version is
\* negotiated: the alternate addresses, then Responded for the book address
BookChangesOf(c, canonical_remote) ==
    [i \in 1..Len(get_alternate_addrs(c, canonical_remote)) |->
        <<"Alternate", get_alternate_addrs(c, canonical_remote)[i]>>]
    \o (IF get_address_book_addr(c) # NoAddr
            THEN << <<"Responded", get_address_book_addr(c)>> >>
            ELSE << >>)

BookChanges(h) == BookChangesOf(ConnectedAddrOf(h), remote_canonical_addr[h])

----------------------------------------------------------------------------
(* negotiate_version *)

Logged(h, e) == log' = [log EXCEPT ![h] = Append(@, e)]

Skipped(h) == Cardinality({i \in DOMAIN log[h] : log[h][i] \in SkipEvents})

SkippedInAll == Skipped("out") + Skipped("in")

\* a discarded Version or Verack is logged while the log has room for it
LogSkip(h, m) ==
    IF m.type \in {"Version", "Verack"} /\ SkippedInAll < MaxSkipped
        THEN Logged(h, "Skip" \o m.type)
        ELSE UNCHANGED log

\* the messages peer_conn.next() can yield now
Incoming(h) ==
    IF selfConn
        THEN (IF wire[h] = << >> THEN {} ELSE {Head(wire[h])})
        ELSE ExternalMessages

\* peer_conn.next() takes the message off the stream
Taken(h) ==
    IF selfConn
        THEN wire' = [wire EXCEPT ![h] = Tail(@)]
        ELSE UNCHANGED wire

\* peer_conn.next() can yield None: the other end is gone and nothing is left to read
StreamEnded(h) ==
    IF selfConn
        THEN wire[h] = << >> /\ closed[Partner(h)]
        ELSE TRUE

\* the request is handed to call(), which spawns the handshake task
Call(h) ==
    /\ pc[h] = "idle"
    /\ pc' = [pc EXCEPT ![h] = "lock_insert"]
    /\ tracker' = [tracker EXCEPT ![h] = "handshake"]
    /\ UNCHANGED <<selfConn, tip, nonces, book_len, result, local_nonce, remote,
                   remote_version, remote_canonical_addr, wire, closed, log, codec_version, tracker_drops,
                   open_connections, pending, updates, spawned>>
    /\ UNCHANGED restOfNode

\* nonces.lock().await.insert(local_nonce)
InsertNonce(h) ==
    /\ pc[h] = "lock_insert"
    /\ local_nonce' = [local_nonce EXCEPT ![h] = NonceDefault(h)]
    /\ nonces' = nonces \cup {NonceDefault(h)}
    /\ pc' = [pc EXCEPT ![h] = "send_version"]
    /\ UNCHANGED <<selfConn, tip, book_len, result, remote, remote_version, remote_canonical_addr, wire,
                   closed, log, codec_version, tracker, tracker_drops,
                   open_connections, pending, updates, spawned>>
    /\ UNCHANGED restOfNode

\* the Version message negotiate_version builds
OurVersion(h) ==
    VersionMsg(local_nonce[h], CURRENT_NETWORK_PROTOCOL_VERSION, ListenAddr)

\* peer_conn.send(our_version).await succeeds
SendVersion(h) ==
    /\ pc[h] = "send_version"
    /\ Transmit(h, OurVersion(h))
    /\ Logged(h, "SendVersion")
    /\ pc' = [pc EXCEPT ![h] = "wait_version"]
    /\ UNCHANGED <<selfConn, tip, nonces, book_len, result, local_nonce, remote,
                   remote_version, remote_canonical_addr, closed, codec_version, tracker, tracker_drops,
                   open_connections, pending, updates, spawned>>
    /\ UNCHANGED restOfNode

\* a send or a read on the stream returns a serialization or I/O error
IoError(h) ==
    /\ pc[h] \in {"send_version", "wait_version", "send_verack", "wait_verack"}
    /\ Fail(h, "IoError")
    /\ UNCHANGED <<selfConn, tip, nonces, book_len, local_nonce, wire,
                   log, codec_version, updates, spawned>>
    /\ UNCHANGED restOfNode

\* peer_conn.next() yields None
ConnectionClosed(h) ==
    /\ pc[h] \in {"wait_version", "wait_verack"}
    /\ StreamEnded(h)
    /\ Fail(h, "ConnectionClosed")
    /\ UNCHANGED <<selfConn, tip, nonces, book_len, local_nonce, wire,
                   log, codec_version, updates, spawned>>
    /\ UNCHANGED restOfNode

\* IsVersion, taking a Verack for the peer's Version too
IsVersionOrVerack(m) == m.type \in {"Version", "Verack"}

\* the first loop leaves on: Message::Version { .. } => break
IsVersion(m) == m.type = "Version"

\* IsVerack, taking whatever comes next for the Verack
IsVerackAny(m) == TRUE

\* the second loop leaves on: Message::Verack => break
IsVerack(m) == m.type = "Verack"

\* the first loop: read until a Version arrives, then destructure it (a message
\* that is no Version cannot be destructured: UnexpectedMessage)
AwaitVersion(h) ==
    /\ pc[h] = "wait_version"
    /\ \E m \in Incoming(h) :
        /\ Taken(h)
        /\ IF ~IsVersion(m)
              THEN /\ LogSkip(h, m)
                   /\ UNCHANGED <<pc, result, remote, remote_version,
                                  remote_canonical_addr, closed, tracker,
                                  tracker_drops, open_connections, pending>>
           ELSE IF m.type = "Version"
              THEN /\ remote' = [remote EXCEPT ![h] = m]
                   /\ Logged(h, "Recv" \o m.type)
                   /\ pc' = [pc EXCEPT ![h] = "check_nonce"]
                   /\ UNCHANGED <<result, remote_version, remote_canonical_addr,
                                  closed, tracker, tracker_drops, open_connections,
                                  pending>>
              ELSE /\ Fail(h, "UnexpectedMessage")
                   /\ Logged(h, "Recv" \o m.type)
    /\ UNCHANGED <<selfConn, tip, nonces, book_len, local_nonce, codec_version,
                   updates, spawned>>
    /\ UNCHANGED restOfNode

\* NonceReuse, looked up after the local nonce was removed from the set
NonceReuseAfterCleanup(h) == remote[h].nonce \in (nonces \ {local_nonce[h]})

\* NonceReuse, comparing with the handshake's own nonce instead of the set
NonceReuseOwnOnly(h) == remote[h].nonce = local_nonce[h]

\* locked_nonces.contains(&remote_nonce)
NonceReuse(h) == remote[h].nonce \in nonces

\* IsObsolete, off by one
IsObsoleteBelow(v, min) == v < min - 1

\* remote_version < min_version
IsObsolete(v, min) == v < min

\* CheckNonce, with the minimum version check before the nonce check
CheckNonceAfterVersion(h) ==
    /\ pc[h] = "check_nonce"
    /\ nonces' = nonces \ {local_nonce[h]}
    /\ IF IsObsolete(remote[h].version, MinimumPeerVersionCurrent(tip))
          THEN /\ Fail(h, "ObsoleteVersion")
               /\ UNCHANGED log
          ELSE IF NonceReuse(h)
          THEN /\ Fail(h, "NonceReuse")
               /\ UNCHANGED log
          ELSE /\ pc' = [pc EXCEPT ![h] = "send_verack"]
               /\ remote' = [remote EXCEPT ![h] = NoMsg]
               /\ remote_version' = [remote_version EXCEPT ![h] = remote[h].version]
               /\ remote_canonical_addr' =
                    [remote_canonical_addr EXCEPT ![h] = remote[h].address_from]
               /\ Logged(h, "ChecksPassed")
               /\ UNCHANGED <<result, pending, closed, tracker, tracker_drops,
                              open_connections>>
    /\ UNCHANGED <<selfConn, tip, book_len, local_nonce, wire, codec_version,
                   updates, spawned>>
    /\ UNCHANGED restOfNode

\* the nonce set's critical section, then the minimum version check
CheckNonce(h) ==
    /\ pc[h] = "check_nonce"
    /\ nonces' = nonces \ {local_nonce[h]}
    /\ IF NonceReuse(h)
          THEN /\ Fail(h, "NonceReuse")
               /\ UNCHANGED log
          ELSE IF IsObsolete(remote[h].version, MinimumPeerVersionCurrent(tip))
          THEN /\ Fail(h, "ObsoleteVersion")
               /\ UNCHANGED log
          ELSE /\ pc' = [pc EXCEPT ![h] = "send_verack"]
               /\ remote' = [remote EXCEPT ![h] = NoMsg]
               /\ remote_version' = [remote_version EXCEPT ![h] = remote[h].version]
               /\ remote_canonical_addr' =
                    [remote_canonical_addr EXCEPT ![h] = remote[h].address_from]
               /\ Logged(h, "ChecksPassed")
               /\ UNCHANGED <<result, pending, closed, tracker, tracker_drops,
                              open_connections>>
    /\ UNCHANGED <<selfConn, tip, book_len, local_nonce, wire, codec_version,
                   updates, spawned>>
    /\ UNCHANGED restOfNode

\* peer_conn.send(Message::Verack).await succeeds
SendVerack(h) ==
    /\ pc[h] = "send_verack"
    /\ Transmit(h, Verack)
    /\ Logged(h, "SendVerack")
    /\ pc' = [pc EXCEPT ![h] = "wait_verack"]
    /\ UNCHANGED <<selfConn, tip, nonces, book_len, result, local_nonce, remote,
                   remote_version, remote_canonical_addr, closed, codec_version, tracker, tracker_drops,
                   open_connections, pending, updates, spawned>>
    /\ UNCHANGED restOfNode

\* the second loop reads a message that is not Verack
SkipBeforeVerack(h) ==
    /\ pc[h] = "wait_verack"
    /\ \E m \in Incoming(h) :
        /\ ~IsVerack(m)
        /\ Taken(h)
        /\ LogSkip(h, m)
    /\ UNCHANGED <<selfConn, tip, nonces, book_len, pc, result, local_nonce, remote,
                   remote_version, remote_canonical_addr, closed, codec_version, tracker, tracker_drops,
                   open_connections, pending, updates, spawned>>
    /\ UNCHANGED restOfNode

\* the second loop reads the Verack: negotiate_version returns Ok and
\* Handshake::call goes on to the address book
AwaitVerack(h) ==
    /\ pc[h] = "wait_verack"
    /\ \E m \in Incoming(h) :
        /\ IsVerack(m)
        /\ Taken(h)
        /\ AfterNegotiation(h, BookChanges(h), << "Recv" \o m.type >>)
    /\ UNCHANGED <<selfConn, tip, nonces, local_nonce, remote, remote_version, closed,
                   tracker_drops, open_connections>>
    /\ UNCHANGED restOfNode

\* address_book_updater.send(..).await gets room in the channel
BookSend(h) ==
    /\ pc[h] = "book_send"
    /\ BookRoom > 0
    /\ AfterNegotiation(h, pending[h], << >>)
    /\ UNCHANGED <<selfConn, tip, nonces, local_nonce, remote, remote_version, wire,
                   closed, tracker_drops, open_connections>>
    /\ UNCHANGED restOfNode

\* TimeoutCovers, with the timeout around negotiate_version alone
TimeoutCoversNegotiation(h) == pc[h] \in InFlight \ {"book_send"}

\* the await points timeout(constants::HANDSHAKE_TIMEOUT, fut) covers; a send to
\* the address book waits only while the channel is full
TimeoutCovers(h) ==
    \/ pc[h] \in InFlight \ {"book_send"}
    \/ pc[h] = "book_send" /\ BookRoom = 0

\* HANDSHAKE_TIMEOUT elapses: the handshake future is dropped where it waits
Timeout(h) ==
    /\ TimeoutCovers(h)
    /\ Fail(h, "Elapsed")
    /\ UNCHANGED <<selfConn, tip, nonces, book_len, local_nonce, wire,
                   log, codec_version, updates, spawned>>
    /\ UNCHANGED restOfNode

----------------------------------------------------------------------------
(* The rest of the node *)

\* the address book updater task takes a change off the channel
BookDrain ==
    /\ book_len > 0
    /\ book_len' = book_len - 1
    /\ UNCHANGED <<selfConn, tip, nonces, pc, result, local_nonce, remote,
                   remote_version, remote_canonical_addr, wire, closed, log, codec_version, tracker,
                   tracker_drops, open_connections, pending, updates, spawned>>
    /\ UNCHANGED restOfNode

\* the best chain grows
TipAdvance ==
    /\ tip + 1 \in Heights
    /\ tip' = tip + 1
    /\ UNCHANGED <<selfConn, nonces, book_len, pc, result, local_nonce, remote,
                   remote_version, remote_canonical_addr, wire, closed, log, codec_version, tracker,
                   tracker_drops, open_connections, pending, updates, spawned>>
    /\ UNCHANGED restOfNode

Next ==
    \/ \E h \in Handshakes :
        \/ Call(h)
        \/ InsertNonce(h)
        \/ SendVersion(h)
        \/ AwaitVersion(h)
        \/ CheckNonce(h)
        \/ SendVerack(h)
        \/ SkipBeforeVerack(h)
        \/ AwaitVerack(h)
        \/ BookSend(h)
        \/ IoError(h)
        \/ ConnectionClosed(h)
        \/ Timeout(h)
    \/ BookDrain
    \/ TipAdvance

Spec == Init /\ [][Next]_vars

\* the runtime polls a task that can run, and the timer of the timeout fires:
\* a handshake that waits for room in the address-book channel either gets it
\* or is timed out
Fairness == \A h \in Handshakes : WF_vars(Timeout(h) \/ BookSend(h))

LiveSpec == Spec /\ Fairness

----------------------------------------------------------------------------
(* An established connection: values *)

\* the connected addresses a connection can have, one or two of each kind
ConnectedAddrs ==
    {[kind |-> "OutboundDirect", addr |-> a] : a \in {ListenAddr, <<2, 1>>}}
        \cup {[kind |-> "InboundDirect", maybe_ip |-> 1, transient_port |-> 2],
              [kind |-> "OutboundProxy", proxy_addr |-> <<3, 1>>,
                                         transient_local_addr |-> <<4, 2>>],
              [kind |-> "InboundProxy", transient_addr |-> <<3, 2>>],
              [kind |-> "Isolated"]}

\* InventoryHash values: a block, a transaction, and a kind that is neither
InventoryHashes == {<<"Block", 1>>, <<"Tx", 1>>, <<"FilteredBlock", 1>>}

\* InventoryHash::unmined_tx_id().is_some()
unmined_tx_id_is_some(i) == i[1] = "Tx"

\* InventoryHash::block_hash().is_some()
block_hash_is_some(i) == i[1] = "Block"

\* the lists of at most n inventory hashes
RECURSIVE InvLists(_)
InvLists(n) ==
    IF n = 0
        THEN {<< >>}
        ELSE InvLists(n - 1)
                \cup {Append(l, i) : l \in {k \in InvLists(n - 1) : Len(k) = n - 1},
                                     i \in InventoryHashes}

Pong == [type |-> "Pong"]
Addr == [type |-> "Addr"]
Inv(list) == [type |-> "Inv", inv |-> list]
NotFound(list) == [type |-> "NotFound", inv |-> list]
\* Err(SerializationError) read from the stream
ReadError == [type |-> "Err"]

\* everything peer_rx can yield once the handshake is over
InboundItems ==
    {Ping, Pong, Addr, ReadError}
        \cup {Inv(l) : l \in InvLists(MaxInv)}
        \cup {NotFound(l) : l \in InvLists(MaxInv)}

\* one item of each kind: two pings, a message that is neither a ping nor
\* inventory, a read error, a gossiped block and a missing transaction
InboundKinds ==
    {Ping, Pong, Addr, ReadError, Inv(<< <<"Block", 1>> >>), NotFound(<< <<"Tx", 1>> >>)}

\* InventoryChange::new_available, new_available_multi and new_missing_multi: the
\* multi constructors give None for an empty list
InventoryChange(status, list, addr) ==
    IF list = << >>
        THEN << >>
        ELSE << [status |-> status, inv |-> list, addr |-> addr] >>

\* register_inventory_status, with every Inv filtered the same way
register_inventory_status_any_inv(item, c) ==
    IF get_transient_addr(c) = NoAddr
        THEN << >>
    ELSE IF item.type = "Inv"
        THEN InventoryChange("Available",
                             SelectSeq(item.inv, unmined_tx_id_is_some),
                             get_transient_addr(c))
    ELSE IF item.type = "NotFound"
        THEN InventoryChange("Missing",
                             SelectSeq(item.inv, LAMBDA i : unmined_tx_id_is_some(i)
                                                                \/ block_hash_is_some(i)),
                             get_transient_addr(c))
    ELSE << >>

\* the InventoryChanges register_inventory_status broadcasts for an item
register_inventory_status(item, c) ==
    IF get_transient_addr(c) = NoAddr
        THEN << >>
    ELSE IF item.type = "Inv"
        THEN IF Len(item.inv) = 1 /\ item.inv[1][1] = "Block"
                THEN InventoryChange("Available", item.inv, get_transient_addr(c))
                ELSE InventoryChange("Available",
                                     SelectSeq(item.inv, unmined_tx_id_is_some),
                                     get_transient_addr(c))
    ELSE IF item.type = "NotFound"
        THEN InventoryChange("Missing",
                             SelectSeq(item.inv, LAMBDA i : unmined_tx_id_is_some(i)
                                                                \/ block_hash_is_some(i)),
                             get_transient_addr(c))
    ELSE << >>

\* inbound_ts_change, with Responded sent for every message
inbound_ts_change_every(item, c) ==
    IF get_address_book_addr(c) = NoAddr
        THEN << >>
    ELSE IF item.type = "Err"
        THEN << [change |-> "Errored", addr |-> get_address_book_addr(c), by |-> "inbound"] >>
        ELSE << [change |-> "Responded", addr |-> get_address_book_addr(c), by |-> "inbound"] >>

\* the MetaAddrChange the inbound_ts_collector wrapper sends for an item
inbound_ts_change(item, c) ==
    IF get_address_book_addr(c) = NoAddr
        THEN << >>
    ELSE IF item.type = "Err"
        THEN << [change |-> "Errored", addr |-> get_address_book_addr(c), by |-> "inbound"] >>
    ELSE IF item.type \in {"Ping", "Pong"}
        THEN << [change |-> "Responded", addr |-> get_address_book_addr(c), by |-> "inbound"] >>
    ELSE << >>

\* the MetaAddrChange the heartbeat task sends when it fails or is shut down
heartbeat_change(change, c) ==
    IF get_address_book_addr(c) = NoAddr
        THEN << >>
        ELSE << [change |-> change, addr |-> get_address_book_addr(c), by |-> "heartbeat"] >>

\* what the handshake of the connection sent to the address book
HandshakeChanges(c, canonical_remote) ==
    [i \in 1..Len(BookChangesOf(c, canonical_remote)) |->
        [change |-> BookChangesOf(c, canonical_remote)[i][1],
         addr |-> BookChangesOf(c, canonical_remote)[i][2],
         by |-> "handshake"]]

----------------------------------------------------------------------------
(* An established connection: the instrumented inbound stream *)

\* the variables of the handshakes, the address-book channel apart
handshakeVars == <<selfConn, tip, nonces, pc, result, local_nonce, remote,
                   remote_version, remote_canonical_addr, wire, closed, log,
                   codec_version, tracker, tracker_drops, open_connections,
                   pending, updates, spawned>>

\* Handshake::call returned a Client for a connection: the handshake sent its
\* changes to the address book and both tasks of the connection were spawned
ConnInit ==
    /\ selfConn = FALSE
    /\ tip = 0
    /\ HandshakesIdle
    /\ book_len \in 0..BookCapacity
    /\ connected_addr \in ConnectedAddrs
    /\ \E canonical_remote \in CanonicalAddrs :
            conn_updates = HandshakeChanges(connected_addr, canonical_remote)
    /\ shutdown_rx = "open"
    /\ tick = FALSE
    /\ hb_pc = "interval"
    /\ hb_err = "none"
    /\ hb_result = "none"
    /\ pings = 0
    /\ peer_pc = "next"
    /\ peer_item = NoMsg
    /\ delivered = NoMsg
    /\ inbound = 0
    /\ inv_last = << >>
    /\ inv_count = 0
    /\ VerifierIdle

\* a task sends `changes` (none or one) to the address book channel, which has room
BookSent(changes) ==
    /\ conn_updates' = conn_updates \o changes
    /\ book_len' = book_len + Len(changes)

\* a send of `changes` has to wait: there is one, and the channel is full
BookWaits(changes) == changes # << >> /\ BookRoom = 0

\* the two wrappers are through with the item: the address book was told, the
\* inventory is registered, and the item itself is yielded to the connection task
Yield(item) ==
    /\ BookSent(inbound_ts_change(item, connected_addr))
    /\ inv_last' = register_inventory_status(item, connected_addr)
    /\ inv_count' = inv_count + Len(register_inventory_status(item, connected_addr))
    /\ delivered' = item
    /\ inbound' = inbound + 1
    /\ peer_pc' = "next"

\* peer_rx reads `item` and runs it through inbound_ts_collector and
\* register_inventory_status, unless the address-book channel is full
PeerRead(item) ==
    /\ peer_pc = "next"
    /\ inbound < MaxInbound
    /\ peer_item' = item
    /\ IF BookWaits(inbound_ts_change(item, connected_addr))
          THEN /\ peer_pc' = "ts_send"
               /\ UNCHANGED <<book_len, conn_updates, inv_last, inv_count,
                              delivered, inbound>>
          ELSE Yield(item)
    /\ UNCHANGED <<handshakeVars, verifierVars, connected_addr, shutdown_rx, tick, hb_pc, hb_err,
                   hb_result, pings>>

\* the peer sends a message of some kind, or the read fails
PeerNext == \E item \in InboundKinds : PeerRead(item)

\* the peer sends an inventory message, whatever its entries
PeerNextInv == \E item \in InboundItems : PeerRead(item)

\* inbound_ts_collector.send(..).await gets room in the channel
PeerTsSend ==
    /\ peer_pc = "ts_send"
    /\ BookRoom > 0
    /\ Yield(peer_item)
    /\ UNCHANGED <<handshakeVars, verifierVars, connected_addr, shutdown_rx, tick, hb_pc, hb_err,
                   hb_result, pings, peer_item>>

----------------------------------------------------------------------------
(* An established connection: the heartbeat task *)

\* the await points of send_periodic_heartbeats_run_loop; future::select polls
\* shutdown_rx before it polls the run loop
RunLoop == {"interval", "queue", "flush", "response", "errored_send"}

\* the await points of send_one_heartbeat, all under timeout(HEARTBEAT_INTERVAL, ..)
OneHeartbeat == {"queue", "flush", "response"}

\* what server_tx.try_send(..) can give
TrySend == {"Ok", "Full", "Disconnected"}

\* the heartbeat task returns: Returning from the function ends the task
HeartbeatReturns(err) ==
    /\ hb_pc' = "returned"
    /\ hb_result' = err
    /\ hb_err' = "none"

\* the task tells the address book `changes` and returns err, or waits for room
TellBookAndReturn(changes, err, waiting) ==
    IF BookWaits(changes)
        THEN /\ hb_pc' = waiting
             /\ hb_err' = err
             /\ UNCHANGED <<hb_result, book_len, conn_updates>>
        ELSE /\ BookSent(changes)
             /\ HeartbeatReturns(err)

\* handle_heartbeat_error, returning the error without a word to the address book
handle_heartbeat_error_silent(err) ==
    /\ HeartbeatReturns(err)
    /\ UNCHANGED <<book_len, conn_updates>>

\* handle_heartbeat_error on Err(err): Errored for the book address, then Err(err)
handle_heartbeat_error(err) ==
    TellBookAndReturn(heartbeat_change("Errored", connected_addr), err, "errored_send")

\* handle_heartbeat_shutdown, returning the error without a word to the address book
handle_heartbeat_shutdown_silent(peer_error) ==
    /\ HeartbeatReturns(peer_error)
    /\ UNCHANGED <<book_len, conn_updates>>

\* handle_heartbeat_shutdown: Shutdown for the book address, then Err(peer_error)
handle_heartbeat_shutdown(peer_error) ==
    TellBookAndReturn(heartbeat_change("Shutdown", connected_addr), peer_error,
                      "shutdown_send")

\* ShutdownReady, with the run loop polled first when its tick is ready
ShutdownReadyAfterTick == shutdown_rx # "open" /\ ~tick

\* what future::select(shutdown_rx, heartbeat_run_loop) polls first is ready:
\* the run loop is not polled
ShutdownReady == shutdown_rx # "open"

\* the interval of the run loop reaches its next tick
TickReady ==
    /\ hb_pc = "interval"
    /\ ~tick
    /\ pings < MaxPings
    /\ tick' = TRUE
    /\ UNCHANGED <<handshakeVars, verifierVars, book_len, connected_addr, shutdown_rx, hb_pc, hb_err,
                   hb_result, pings, peer_pc, peer_item, delivered, inbound,
                   conn_updates, inv_last, inv_count>>

\* the Client sends CancelHeartbeatTask on shutdown_tx
ClientCancels ==
    /\ hb_pc # "unspawned"
    /\ shutdown_rx = "open"
    /\ shutdown_rx' = "CancelHeartbeatTask"
    /\ UNCHANGED <<handshakeVars, verifierVars, book_len, connected_addr, tick, hb_pc, hb_err,
                   hb_result, pings, peer_pc, peer_item, delivered, inbound,
                   conn_updates, inv_last, inv_count>>

\* shutdown_tx is dropped without a send
ClientDropped ==
    /\ hb_pc # "unspawned"
    /\ shutdown_rx = "open"
    /\ shutdown_rx' = "Canceled"
    /\ UNCHANGED <<handshakeVars, verifierVars, book_len, connected_addr, tick, hb_pc, hb_err,
                   hb_result, pings, peer_pc, peer_item, delivered, inbound,
                   conn_updates, inv_last, inv_count>>

\* select finds shutdown_rx ready: Either::Left
HeartbeatShutdown ==
    /\ hb_pc \in RunLoop
    /\ ShutdownReady
    /\ handle_heartbeat_shutdown(IF shutdown_rx = "CancelHeartbeatTask"
                                    THEN "ClientCancelledHeartbeatTask"
                                    ELSE "ClientDropped")
    /\ UNCHANGED <<handshakeVars, verifierVars, connected_addr, shutdown_rx, tick, pings, peer_pc,
                   peer_item, delivered, inbound, inv_last, inv_count>>

\* the run loop takes the tick: send_one_heartbeat queues a Ping request
SendOneHeartbeat ==
    /\ hb_pc = "interval"
    /\ ~ShutdownReady
    /\ tick
    /\ tick' = FALSE
    /\ \E try_send \in TrySend :
        CASE try_send = "Ok" ->
                /\ pings' = pings + 1
                /\ hb_pc' = "flush"
                /\ UNCHANGED <<hb_err, hb_result, book_len, conn_updates>>
          [] try_send = "Full" ->
                /\ hb_pc' = "queue"
                /\ UNCHANGED <<pings, hb_err, hb_result, book_len, conn_updates>>
          [] try_send = "Disconnected" ->
                /\ handle_heartbeat_error("ConnectionClosed")
                /\ UNCHANGED pings
    /\ UNCHANGED <<handshakeVars, verifierVars, connected_addr, shutdown_rx, peer_pc, peer_item,
                   delivered, inbound, inv_last, inv_count>>

\* server_tx.send(..).await queues the request once the connection task is ready
QueueSent ==
    /\ hb_pc = "queue"
    /\ ~ShutdownReady
    /\ pings' = pings + 1
    /\ hb_pc' = "flush"
    /\ UNCHANGED <<handshakeVars, verifierVars, book_len, connected_addr, shutdown_rx, tick, hb_err,
                   hb_result, peer_pc, peer_item, delivered, inbound, conn_updates,
                   inv_last, inv_count>>

\* send_one_heartbeat returning after the flush, without the wait for the response
FlushedNoResponse ==
    /\ hb_pc = "flush"
    /\ ~ShutdownReady
    /\ hb_pc' = "interval"
    /\ UNCHANGED <<handshakeVars, verifierVars, book_len, connected_addr, shutdown_rx, tick, hb_err,
                   hb_result, pings, peer_pc, peer_item, delivered, inbound,
                   conn_updates, inv_last, inv_count>>

\* server_tx.flush().await is through
Flushed ==
    /\ hb_pc = "flush"
    /\ ~ShutdownReady
    /\ hb_pc' = "response"
    /\ UNCHANGED <<handshakeVars, verifierVars, book_len, connected_addr, shutdown_rx, tick, hb_err,
                   hb_result, pings, peer_pc, peer_item, delivered, inbound,
                   conn_updates, inv_last, inv_count>>

\* rx.await?? gives Ok: the heartbeat is done and the loop waits for the next tick
ResponseOk ==
    /\ hb_pc = "response"
    /\ ~ShutdownReady
    /\ hb_pc' = "interval"
    /\ UNCHANGED <<handshakeVars, verifierVars, book_len, connected_addr, shutdown_rx, tick, hb_err,
                   hb_result, pings, peer_pc, peer_item, delivered, inbound,
                   conn_updates, inv_last, inv_count>>

\* the error an await of send_one_heartbeat can end with
HeartbeatErrorAt(at) ==
    CASE at = "queue" -> "SendError"
      [] at = "flush" -> "FlushError"
      [] at = "response" -> "ResponseError"

\* an await of send_one_heartbeat gives an error
HeartbeatFails ==
    /\ hb_pc \in OneHeartbeat
    /\ ~ShutdownReady
    /\ handle_heartbeat_error(HeartbeatErrorAt(hb_pc))
    /\ UNCHANGED <<handshakeVars, verifierVars, connected_addr, shutdown_rx, tick, pings, peer_pc,
                   peer_item, delivered, inbound, inv_last, inv_count>>

\* timeout(HEARTBEAT_INTERVAL, heartbeat) elapses
HeartbeatElapsed ==
    /\ hb_pc \in OneHeartbeat
    /\ ~ShutdownReady
    /\ handle_heartbeat_error("Elapsed")
    /\ UNCHANGED <<handshakeVars, verifierVars, connected_addr, shutdown_rx, tick, pings, peer_pc,
                   peer_item, delivered, inbound, inv_last, inv_count>>

\* the send of handle_heartbeat_error or handle_heartbeat_shutdown gets room
HeartbeatBookSend ==
    /\ \/ hb_pc = "errored_send" /\ ~ShutdownReady
       \/ hb_pc = "shutdown_send"
    /\ BookRoom > 0
    /\ BookSent(heartbeat_change(IF hb_pc = "errored_send" THEN "Errored" ELSE "Shutdown",
                                 connected_addr))
    /\ HeartbeatReturns(hb_err)
    /\ UNCHANGED <<handshakeVars, verifierVars, connected_addr, shutdown_rx, tick, pings, peer_pc,
                   peer_item, delivered, inbound, inv_last, inv_count>>

ConnNext ==
    \/ PeerNext
    \/ PeerTsSend
    \/ TickReady
    \/ ClientCancels
    \/ ClientDropped
    \/ HeartbeatShutdown
    \/ SendOneHeartbeat
    \/ QueueSent
    \/ Flushed
    \/ ResponseOk
    \/ HeartbeatFails
    \/ HeartbeatElapsed
    \/ HeartbeatBookSend
    \/ BookDrain

ConnSpec == ConnInit /\ [][ConnNext]_vars

\* the inbound stream alone, over every inventory message
InvNext ==
    \/ PeerNextInv
    \/ PeerTsSend
    \/ BookDrain

InvSpec == ConnInit /\ [][InvNext]_vars

----------------------------------------------------------------------------
(* The transaction verifier (src/zebra-consensus/src/transaction.rs)       *)
(*                                                                         *)
(* One call of Verifier::call.  v_pc is the step of its future that runs   *)
(* next; a step that asks the state service has a second value for the     *)
(* pending answer, and the answer is the state service's choice.  The      *)
(* parts of a transaction that a step reads by value (lock time, expiry    *)
(* height, amounts, nullifiers, proofs) are `facts`: the set of those that *)
(* are wrong is drawn when the step reads them.                            *)

\* Transaction::is_coinbase
is_coinbase(tx) == Len(tx.inputs) = 1 /\ tx.inputs[1] = "Coinbase"

\* Transaction::is_valid_non_coinbase
is_valid_non_coinbase(tx) == \A i \in DOMAIN tx.inputs : tx.inputs[i] = "PrevOut"

\* Transaction::is_overwintered
is_overwintered(tx) == tx.version >= 3

\* Transaction::has_transparent_or_shielded_inputs
has_transparent_or_shielded_inputs(tx) ==
    \/ tx.inputs # << >>
    \/ tx.joinsplit_count > 0
    \/ tx.sapling_spends > 0
    \/ (tx.orchard_actions > 0 /\ "ENABLE_SPENDS" \in tx.orchard_flags)

\* Transaction::has_transparent_or_shielded_outputs
has_transparent_or_shielded_outputs(tx) ==
    \/ tx.outputs > 0
    \/ tx.joinsplit_count > 0
    \/ tx.sapling_outputs > 0
    \/ (tx.orchard_actions > 0 /\ "ENABLE_OUTPUTS" \in tx.orchard_flags)

\* Transaction::has_enough_orchard_flags
Transaction_has_enough_orchard_flags(tx) ==
    ~(tx.orchard_actions > 0 /\ tx.orchard_flags = {})

\* the first error of a list of results, or Ok
RECURSIVE FirstError(_)
FirstError(results) ==
    IF results = << >> THEN "Ok"
    ELSE IF Head(results) # "Ok" THEN Head(results)
    ELSE FirstError(Tail(results))

\* what the steps up to the spend-conflict check read by value
BasicFacts == {"non_final", "expiry_not_block_height", "expiry_above_max", "expired",
               "both_vpubs_nonzero", "vpub_old_nonzero", "duplicate_spend"}

\* a step returns at its first error, which one wrong value decides: drawing
\* no wrong value or one yields every outcome of the step
OneOf(facts) == {{}} \cup {{f} : f \in facts}

\* check::is_final_tx_komodo: only an input can make a transaction non-final
is_final_tx_komodo(tx, facts) ==
    IF tx.inputs # << >> /\ "non_final" \in facts
    THEN "LockedUntilAfterBlock" ELSE "Ok"

\* check::has_inputs_and_outputs
has_inputs_and_outputs(tx) ==
    IF ~has_transparent_or_shielded_inputs(tx) THEN "NoInputs"
    ELSE IF ~has_transparent_or_shielded_outputs(tx) THEN "NoOutputs"
    ELSE "Ok"

\* check::has_enough_orchard_flags
has_enough_orchard_flags(tx) ==
    IF ~Transaction_has_enough_orchard_flags(tx) THEN "NotEnoughFlags" ELSE "Ok"

\* check::coinbase_tx_no_prevout_joinsplit_spend
coinbase_tx_no_prevout_joinsplit_spend(tx) ==
    IF ~is_coinbase(tx) THEN "Ok"
    ELSE IF tx.joinsplit_count > 0 THEN "CoinbaseHasJoinSplit"
    ELSE IF tx.sapling_spends > 0 THEN "CoinbaseHasSpend"
    ELSE IF tx.orchard_actions > 0 /\ "ENABLE_SPENDS" \in tx.orchard_flags
         THEN "CoinbaseHasEnableSpendsOrchard"
    ELSE "Ok"

\* check::validate_expiry_height_max: V1 and V2 have no expiry height
validate_expiry_height_max(tx, facts) ==
    IF is_overwintered(tx) /\ "expiry_above_max" \in facts
    THEN "MaximumExpiryHeight" ELSE "Ok"

\* check::validate_expiry_height_mined
validate_expiry_height_mined(tx, facts) ==
    IF is_overwintered(tx) /\ "expired" \in facts
    THEN "ExpiredTransaction" ELSE "Ok"

\* check::coinbase_expiry_height
coinbase_expiry_height(upgrade, tx, facts) ==
    IF upgrade = "Nu5"
    THEN IF ~is_overwintered(tx) \/ "expiry_not_block_height" \in facts
         THEN "CoinbaseExpiryBlockHeight" ELSE "Ok"
    ELSE validate_expiry_height_max(tx, facts)

\* check::non_coinbase_expiry_height
non_coinbase_expiry_height(tx, facts) ==
    IF is_overwintered(tx)
    THEN FirstError(<<validate_expiry_height_max(tx, facts),
                      validate_expiry_height_mined(tx, facts)>>)
    ELSE "Ok"

\* check::joinsplit_has_vpub_zero
joinsplit_has_vpub_zero(tx, facts) ==
    IF tx.joinsplit_count > 0 /\ "both_vpubs_nonzero" \in facts
    THEN "BothVPubsNonZero" ELSE "Ok"

\* check::disabled_add_to_sprout_pool
disabled_add_to_sprout_pool(tx, upgrade, facts) ==
    IF /\ UpgradeRank(upgrade) >= UpgradeRank("Canopy")
       /\ tx.joinsplit_count > 0
       /\ facts \cap {"both_vpubs_nonzero", "vpub_old_nonzero"} # {}
    THEN "DisabledAddToSproutPool" ELSE "Ok"

\* check::spend_conflicts: two outpoints or two nullifiers of one pool are equal
spend_conflicts(tx, facts) ==
    IF /\ "duplicate_spend" \in facts
       /\ \/ Cardinality(PrevOuts(tx)) >= 2
          \/ tx.joinsplit_count > 0
    THEN "DuplicateSpend" ELSE "Ok"

\* Verifier::call: coinbase in the mempool, then the coinbase rules
CoinbaseRulesMempoolLast(r) ==
    LET tx == r.transaction IN
    FirstError(<<
        IF is_coinbase(tx) THEN coinbase_tx_no_prevout_joinsplit_spend(tx)
        ELSE IF ~is_valid_non_coinbase(tx) THEN "NonCoinbaseHasCoinbaseInput"
        ELSE "Ok",
        IF r.kind = "Mempool" /\ is_coinbase(tx) THEN "CoinbaseInMempool" ELSE "Ok">>)

CoinbaseRules(r) ==
    LET tx == r.transaction IN
    FirstError(<<
        IF r.kind = "Mempool" /\ is_coinbase(tx) THEN "CoinbaseInMempool" ELSE "Ok",
        IF is_coinbase(tx) THEN coinbase_tx_no_prevout_joinsplit_spend(tx)
        ELSE IF ~is_valid_non_coinbase(tx) THEN "NonCoinbaseHasCoinbaseInput"
        ELSE "Ok">>)

\* the basic checks with the coinbase rules run first
BasicChecksCoinbaseFirst(r, facts) ==
    LET tx == r.transaction IN
    FirstError(<<
        CoinbaseRules(r),
        IF r.kind = "Block" THEN is_final_tx_komodo(tx, facts) ELSE "Ok",
        has_inputs_and_outputs(tx),
        has_enough_orchard_flags(tx),
        IF is_coinbase(tx) THEN coinbase_expiry_height(r.upgrade, tx, facts)
        ELSE non_coinbase_expiry_height(tx, facts),
        joinsplit_has_vpub_zero(tx, facts),
        disabled_add_to_sprout_pool(tx, r.upgrade, facts),
        spend_conflicts(tx, facts)>>)

\* Verifier::call, from "Do basic checks first" to check::spend_conflicts
BasicChecksOf(r, facts) ==
    LET tx == r.transaction IN
    FirstError(<<
        IF r.kind = "Block" THEN is_final_tx_komodo(tx, facts) ELSE "Ok",
        has_inputs_and_outputs(tx),
        has_enough_orchard_flags(tx),
        CoinbaseRules(r),
        IF is_coinbase(tx) THEN coinbase_expiry_height(r.upgrade, tx, facts)
        ELSE non_coinbase_expiry_height(tx, facts),
        joinsplit_has_vpub_zero(tx, facts),
        disabled_add_to_sprout_pool(tx, r.upgrade, facts),
        spend_conflicts(tx, facts)>>)

\* everything but the verification
restOfVerifier == <<handshakeVars, book_len, connVars, checkVars, fnVars, holder, callers>>

\* everything else a step before the fee check leaves alone
restOfStep == <<rate_limiter, restOfVerifier>>

\* FeeRate::new(DEFAULT_MIN_RELAY_TX_FEE): the fee per 1000 bytes
min_relay_txfee == 1000

\* the serialized size of the transactions
TxSize == 250

\* the amounts of a transaction: fees around min_relay_txfee.get_fee(TxSize)
\* and around 10000 times that, and a fee of 1200 times that; transparent
\* outputs around 19 times the fee, and of 1_000_000
Amounts ==
    [fee : {249, 250, 300000, 2500000, 2500001}, size : {TxSize},
     output_value : {0, 1000000, 47500018, 47500019}]

\* the requests of the specification of the fee checks: a transaction without
\* shielded data at a height any version is accepted at; only a transaction
\* that spends an output has a fee
FeeRequests(transaction) ==
    {Block(transaction, "Nu5", known_utxos, FALSE) :
        known_utxos \in {PrevOuts(transaction)}}
    \cup {Mempool(transaction, "Nu5", check_low_fee, reject_absurd_fee, amounts) :
            check_low_fee \in BOOLEAN, reject_absurd_fee \in BOOLEAN,
            amounts \in IF PrevOuts(transaction) = {} THEN {} ELSE Amounts}

\* a verification is about to start
CallStarts ==
    /\ selfConn = FALSE
    /\ tip = 0
    /\ book_len = 0
    /\ HandshakesIdle
    /\ NoConnection
    /\ NoAsyncChecks
    /\ NoCall
    /\ NoCallers
    /\ v_pc = "basic_checks"
    /\ v_result = "none"
    /\ state_requests = << >>
    /\ input_index = 1
    /\ spent_outputs = << >>
    /\ spent_utxos = << >>
    /\ lookup_elapsed = 0
    /\ async_checks = NoChecks
    /\ failed_checks = {}

\* Verifier::call was given a Request for a transaction without shielded data,
\* with any flags and amounts; the limiter has any number of tokens
FeeInit ==
    /\ CallStarts
    /\ rate_limiter \in Limiters
    /\ \E transaction \in Transactions :
        /\ transaction.version \in {4, 5}
        /\ transaction.joinsplit_count + transaction.sapling_spends
              + transaction.sapling_outputs + transaction.orchard_actions = 0
        /\ req \in FeeRequests(transaction)

\* Verifier::call was given a Request; nothing else runs
VerifierInit ==
    /\ CallStarts
    /\ rate_limiter = [NewLimiter EXCEPT !.tokens = 0]
    /\ \E transaction \in Transactions, upgrade \in NetworkUpgrade :
        \/ \E known_utxos \in SUBSET PrevOuts(transaction), last \in BOOLEAN :
                req = Block(transaction, upgrade, known_utxos, last)
        \/ \E fee \in {249, 250, 2500001} :
                req = Mempool(transaction, upgrade, TRUE, TRUE,
                              [fee |-> fee, size |-> TxSize, output_value |-> 0])

\* a request to the state service; input is the position of the input whose
\* outpoint a UTXO request names, 0 for the other requests
StateRequest(type, input) == [type |-> type, input |-> input]

\* the future resolves to `res`, or goes on with the step `next`
ReturnsOrGoesOn(res, next) ==
    IF res = "Ok"
    THEN v_pc' = next /\ v_result' = v_result
    ELSE v_pc' = "done" /\ v_result' = res

\* the basic checks, none of which awaits
BasicChecks ==
    /\ v_pc = "basic_checks"
    /\ \E facts \in OneOf(BasicFacts) :
            ReturnsOrGoesOn(BasicChecksOf(req, facts), "interest_locktime")
    /\ UNCHANGED <<req, state_requests, input_index, spent_outputs, spent_utxos, lookup_elapsed, async_checks, failed_checks,
                   restOfStep>>

\* komodo_validate_interest_locktime: a time lock older than cmp_time allows
komodo_validate_interest_locktime(facts) ==
    IF "locktime_too_early" \in facts THEN "KomodoTxLockTimeTooEarly" ELSE "Ok"

\* the interest lock-time step: a Mempool request, and a Block request at a
\* height where komodo_is_gap_after_second_block_allowed holds, ask the state
\* for the median time past; another Block request compares with its own time
InterestLockTime ==
    /\ v_pc = "interest_locktime"
    /\ \/ /\ req.kind = "Mempool"
          /\ state_requests' = Append(state_requests, StateRequest("GetMedianTimePast", 0))
          /\ v_pc' = "median_time_past"
          /\ v_result' = v_result
       \/ /\ req.kind = "Block"
          /\ state_requests' = Append(state_requests, StateRequest("AwaitBlock", 0))
          /\ v_pc' = "await_block"
          /\ v_result' = v_result
       \/ /\ req.kind = "Block"
          /\ \E facts \in SUBSET {"locktime_too_early"} :
                ReturnsOrGoesOn(komodo_validate_interest_locktime(facts), "last_block_time")
          /\ state_requests' = state_requests
    /\ UNCHANGED <<req, input_index, spent_outputs, spent_utxos, lookup_elapsed, async_checks, failed_checks, restOfStep>>

\* get_median_time_past(Some(previous_hash)): the state answers AwaitBlock
AwaitBlockAnswer ==
    /\ v_pc = "await_block"
    /\ \/ /\ state_requests' = Append(state_requests, StateRequest("GetMedianTimePast", 0))
          /\ v_pc' = "median_time_past"
          /\ v_result' = v_result
       \/ /\ ReturnsOrGoesOn("BoxError", "done")
          /\ state_requests' = state_requests
    /\ UNCHANGED <<req, input_index, spent_outputs, spent_utxos, lookup_elapsed, async_checks, failed_checks, restOfStep>>

\* get_median_time_past: the state answers GetMedianTimePast
MedianTimePastAnswer ==
    /\ v_pc = "median_time_past"
    /\ \/ \E facts \in SUBSET {"locktime_too_early"} :
                ReturnsOrGoesOn(komodo_validate_interest_locktime(facts), "last_block_time")
       \/ ReturnsOrGoesOn("KomodoMedianTimePastError", "done")
       \/ ReturnsOrGoesOn("BoxError", "done")
    /\ UNCHANGED <<req, state_requests, input_index, spent_outputs, spent_utxos, lookup_elapsed, async_checks, failed_checks,
                   restOfStep>>

\* get_last_block_time, asked for a transaction that is not a coinbase
LastBlockTime ==
    /\ v_pc = "last_block_time"
    /\ IF ~is_coinbase(req.transaction)
       THEN /\ state_requests' = Append(state_requests,
                    StateRequest(IF req.kind = "Block" THEN "AwaitBlock" ELSE "Block", 0))
            /\ v_pc' = "last_block_time_query"
       ELSE /\ state_requests' = state_requests
            /\ v_pc' = "banned_inputs"
    /\ UNCHANGED <<req, v_result, input_index, spent_outputs, spent_utxos, lookup_elapsed, async_checks, failed_checks,
                   restOfStep>>

\* get_last_block_time: the state answers with the block, with None or fails
LastBlockTimeAnswer ==
    /\ v_pc = "last_block_time_query"
    /\ \E res \in {"Ok", "KomodoTipTimeError", "BoxError"} :
            ReturnsOrGoesOn(res, "banned_inputs")
    /\ UNCHANGED <<req, state_requests, input_index, spent_outputs, spent_utxos, lookup_elapsed, async_checks, failed_checks,
                   restOfStep>>

\* check::tx_has_banned_inputs: an outpoint of the transaction may be banned
tx_has_banned_inputs(tx, facts) ==
    IF PrevOuts(tx) # {} /\ "banned_input" \in facts THEN "BannedInput" ELSE "Ok"

BannedInputs ==
    /\ v_pc = "banned_inputs"
    /\ \E facts \in SUBSET {"banned_input"} :
            ReturnsOrGoesOn(tx_has_banned_inputs(req.transaction, facts), "spent_utxos")
    /\ UNCHANGED <<req, state_requests, input_index, spent_outputs, spent_utxos, lookup_elapsed, async_checks, failed_checks,
                   restOfStep>>

\* a map that keeps its last entry only
insert_last_only(map, key, value) == [k \in {key} |-> value]

\* HashMap::insert
insert(map, key, value) ==
    [k \in DOMAIN map \cup {key} |-> IF k = key THEN value ELSE map[k]]

\* spent_utxos: one turn of the loop over the inputs, up to its await
SpentUtxos ==
    /\ v_pc = "spent_utxos"
    /\ LET inputs == req.transaction.inputs IN
       IF input_index > Len(inputs)
       THEN /\ v_pc' = "deposit_and_opret"
            /\ UNCHANGED <<input_index, spent_outputs, spent_utxos, lookup_elapsed, state_requests>>
       ELSE IF inputs[input_index] # "PrevOut"
       THEN /\ input_index' = input_index + 1
            /\ UNCHANGED <<v_pc, spent_outputs, spent_utxos, lookup_elapsed, state_requests>>
       ELSE IF req.kind = "Block" /\ input_index \in req.known_utxos
       THEN /\ spent_outputs' = Append(spent_outputs, input_index)
            /\ spent_utxos' = insert(spent_utxos, input_index, "known_utxos")
            /\ input_index' = input_index + 1
            /\ UNCHANGED <<v_pc, state_requests, lookup_elapsed>>
       ELSE /\ state_requests' = Append(state_requests,
                    StateRequest(IF req.kind = "Mempool" THEN "UnspentBestChainUtxo"
                                 ELSE "AwaitUtxo", input_index))
            /\ v_pc' = "utxo_query"
            /\ UNCHANGED <<input_index, spent_outputs, spent_utxos, lookup_elapsed>>
    /\ UNCHANGED <<req, v_result, async_checks, failed_checks, restOfStep>>

\* a Timeout of seven minutes
SEVEN_MINUTES == 7 * 60

\* the time the Timeout around the state service gives a request
UTXO_LOOKUP_TIMEOUT == 6 * 60

\* spent_utxos: the outstanding UTXO request waits another minute
LookupWaits ==
    /\ v_pc = "utxo_query"
    /\ lookup_elapsed + 60 <= UTXO_LOOKUP_TIMEOUT
    /\ lookup_elapsed' = lookup_elapsed + 60
    /\ UNCHANGED <<req, v_pc, v_result, state_requests, input_index, spent_outputs,
                   spent_utxos, async_checks, failed_checks, restOfStep>>

\* spent_utxos: the await of the UTXO request ends. Before UTXO_LOOKUP_TIMEOUT
\* the state answers with the UTXO, with None (UnspentBestChainUtxo only) or
\* with an error; at UTXO_LOOKUP_TIMEOUT the Timeout answers Elapsed instead.
UtxoAnswer ==
    /\ v_pc = "utxo_query"
    /\ \/ /\ lookup_elapsed < UTXO_LOOKUP_TIMEOUT
          /\ spent_outputs' = Append(spent_outputs, input_index)
          /\ spent_utxos' = insert(spent_utxos, input_index, "state")
          /\ input_index' = input_index + 1
          /\ v_pc' = "spent_utxos"
          /\ v_result' = v_result
          /\ lookup_elapsed' = 0
       \/ /\ lookup_elapsed < UTXO_LOOKUP_TIMEOUT
          /\ req.kind = "Mempool"
          /\ ReturnsOrGoesOn("TransparentInputNotFound", "done")
          /\ UNCHANGED <<input_index, spent_outputs, spent_utxos, lookup_elapsed>>
       \/ /\ lookup_elapsed < UTXO_LOOKUP_TIMEOUT
          /\ ReturnsOrGoesOn("BoxError", "done")
          /\ UNCHANGED <<input_index, spent_outputs, spent_utxos, lookup_elapsed>>
       \/ /\ lookup_elapsed = UTXO_LOOKUP_TIMEOUT
          /\ ReturnsOrGoesOn("Elapsed", "done")
          /\ UNCHANGED <<input_index, spent_outputs, spent_utxos, lookup_elapsed>>
    /\ UNCHANGED <<req, state_requests, async_checks, failed_checks, restOfStep>>

\* check::komodo_check_deposit_and_opret, for the last transaction of a block
komodo_check_deposit_and_opret(r, facts) ==
    IF r.kind = "Block" /\ r.last_tx_verify_data /\ "bad_deposit_or_opret" \in facts
    THEN "KomodoDepositOrOpret" ELSE "Ok"

DepositAndOpret ==
    /\ v_pc = "deposit_and_opret"
    /\ \E facts \in SUBSET {"bad_deposit_or_opret"} :
            ReturnsOrGoesOn(komodo_check_deposit_and_opret(req, facts), "dispatch")
    /\ UNCHANGED <<req, state_requests, input_index, spent_outputs, spent_utxos, lookup_elapsed, async_checks, failed_checks,
                   restOfStep>>

\* V4 transactions supported from Overwinter on
verify_v4_transaction_from_overwinter(upgrade) ==
    IF UpgradeRank(upgrade) >= UpgradeRank("Overwinter")
    THEN "Ok" ELSE "UnsupportedByNetworkUpgrade"

\* verify_v4_transaction_network_upgrade
verify_v4_transaction_network_upgrade(upgrade) ==
    IF UpgradeRank(upgrade) >= UpgradeRank("Sapling")
    THEN "Ok" ELSE "UnsupportedByNetworkUpgrade"

\* verify_v5_transaction_network_upgrade
verify_v5_transaction_network_upgrade(upgrade) ==
    IF upgrade = "Nu5" THEN "Ok" ELSE "UnsupportedByNetworkUpgrade"

\* verify_transparent_inputs_and_outputs: one script check per input
verify_transparent_inputs_and_outputs(tx) ==
    [NoChecks EXCEPT !["script"] = IF is_coinbase(tx) THEN 0 ELSE Len(tx.inputs)]

\* verify_sprout_shielded_data
verify_sprout_shielded_data(tx) ==
    [NoChecks EXCEPT !["groth16_joinsplit"] = tx.joinsplit_count,
                     !["ed25519"] = IF tx.joinsplit_count > 0 THEN 1 ELSE 0]

\* Sapling checks with a binding signature check for every spend and output
verify_sapling_binding_each(tx) ==
    [NoChecks EXCEPT !["groth16_spend"] = tx.sapling_spends,
                     !["redjubjub_spend_auth"] = tx.sapling_spends,
                     !["groth16_output"] = tx.sapling_outputs,
                     !["redjubjub_binding"] = tx.sapling_spends + tx.sapling_outputs]

\* verify_sapling_shielded_data
verify_sapling_shielded_data(tx) ==
    [NoChecks EXCEPT !["groth16_spend"] = tx.sapling_spends,
                     !["redjubjub_spend_auth"] = tx.sapling_spends,
                     !["groth16_output"] = tx.sapling_outputs,
                     !["redjubjub_binding"] =
                        IF tx.sapling_spends + tx.sapling_outputs > 0 THEN 1 ELSE 0]

\* verify_orchard_shielded_data
verify_orchard_shielded_data(tx) ==
    [NoChecks EXCEPT !["halo2"] = IF tx.orchard_actions > 0 THEN 1 ELSE 0,
                     !["redpallas_spend_auth"] = tx.orchard_actions,
                     !["redpallas_binding"] = IF tx.orchard_actions > 0 THEN 1 ELSE 0]

\* AsyncChecks::and
and(a, b) == [k \in CheckKinds |-> a[k] + b[k]]

\* a Groth16 description of the transaction may fail to convert
Descriptions(tx, facts) ==
    IF /\ "bad_description" \in facts
       /\ tx.joinsplit_count + tx.sapling_spends + tx.sapling_outputs > 0
    THEN "MalformedGroth16" ELSE "Ok"

\* the match on the transaction's version in Verifier::call: the versions it
\* refuses outright
WrongVersionBelowOverwinter(tx) == tx.version < 3

WrongVersion(tx) == tx.version \in {1, 2, 3}

\* the checks the version's arm of the match returns
ChecksOf(tx) ==
    IF tx.version = 4
    THEN and(and(verify_transparent_inputs_and_outputs(tx),
                 verify_sprout_shielded_data(tx)),
             verify_sapling_shielded_data(tx))
    ELSE and(and(verify_transparent_inputs_and_outputs(tx),
                 verify_sapling_shielded_data(tx)),
             verify_orchard_shielded_data(tx))

\* the error of the version's arm, or Ok
DispatchOf(r, facts) ==
    LET tx == r.transaction IN
    IF WrongVersion(tx) THEN "WrongVersion"
    ELSE FirstError(<<
            IF tx.version = 4 THEN verify_v4_transaction_network_upgrade(r.upgrade)
            ELSE verify_v5_transaction_network_upgrade(r.upgrade),
            Descriptions(tx, facts)>>)

Dispatch ==
    /\ v_pc = "dispatch"
    /\ \E facts \in SUBSET {"bad_description"} :
         LET res == DispatchOf(req, facts) IN
            /\ ReturnsOrGoesOn(res, "async_checks")
            /\ async_checks' = IF res = "Ok" THEN ChecksOf(req.transaction) ELSE NoChecks
    /\ UNCHANGED <<req, state_requests, input_index, spent_outputs, spent_utxos,
                   lookup_elapsed, failed_checks, restOfStep>>

\* AsyncChecks::check, as Verifier::call sees it: Ok when no check failed, else
\* the error of a check that failed
check(failed) == IF failed = {} THEN "Ok" ELSE "CheckFailed"

\* AsyncChecks::check, awaited by Verifier::call: every check completed with Ok,
\* or a check of one of the dispatched kinds completed with an error
AsyncChecksAnswer ==
    /\ v_pc = "async_checks"
    /\ \E failed \in OneOf({k \in CheckKinds : async_checks[k] > 0}) :
            /\ failed_checks' = failed
            /\ ReturnsOrGoesOn(check(failed), "miner_fee")
    /\ UNCHANGED <<req, state_requests, input_index, spent_outputs, spent_utxos,
                   lookup_elapsed, async_checks, restOfStep>>

\* FeeRate::get_fee: the fee of `size` bytes at a fee per 1000 bytes
get_fee(fee_per_kb, size) == (fee_per_kb * size) \div 1000

\* FeeRateLimiter: the refill of check_rate_limit, a part of a token a second
\* up to the capacity
refill(limiter, now) ==
    LET tokens == Min(LimiterCapacity * TokenParts,
                      limiter.tokens + (now - limiter.last_refill))
    IN  [limiter EXCEPT !.tokens = tokens, !.last_refill = now,
                        !.refilled = @ + (tokens - limiter.tokens)]

\* FeeRateLimiter: check_rate_limit allows with a whole token at hand
allows(tokens) == tokens >= TokenParts

\* FeeRateLimiter: what check_rate_limit leaves of the refilled limiter
deduct(limiter, tokens) ==
    IF allows(tokens)
    THEN [limiter EXCEPT !.tokens = tokens - TokenParts, !.calls = @ + 1,
                         !.admitted = @ + 1]
    ELSE [limiter EXCEPT !.tokens = tokens, !.calls = @ + 1]

\* FeeRateLimiter::check_rate_limit
check_rate_limit(limiter, now) ==
    LET refilled == refill(limiter, now)
    IN  [allowed |-> allows(refilled.tokens), limiter |-> deduct(refilled, refilled.tokens)]

\* the low-fee path taken by a fee that equals the floor as well
low_fee_or_equal(tx_fee, floor, check_low_fee) == check_low_fee /\ tx_fee <= floor

\* komodo_miner_fee_valid_for_mempool: the condition of the low-fee path
low_fee(tx_fee, floor, check_low_fee) == check_low_fee /\ tx_fee < floor

\* an absurd fee that need only exceed one of the two
absurd_fee_either(tx_fee, floor, output_value) ==
    tx_fee > floor * 10000 \/ tx_fee > output_value \div 19

\* an absurd fee above a thousand times the floor
absurd_fee_thousand(tx_fee, floor, output_value) ==
    tx_fee > floor * 1000 /\ tx_fee > output_value \div 19

\* komodo_miner_fee_valid_for_mempool: the condition of the absurd fee
absurd_fee(tx_fee, floor, output_value) ==
    tx_fee > floor * 10000 /\ tx_fee > output_value \div 19

\* Verifier::komodo_miner_fee_valid_for_mempool: the result, and the limiter
\* it leaves; the Mutex is free and not poisoned
komodo_miner_fee_valid_for_mempool(limiter, now, fee_rate, amounts, check_low_fee, reject_absurd_fee) ==
    LET floor == get_fee(fee_rate, amounts.size)
        checked == IF low_fee(amounts.fee, floor, check_low_fee)
                   THEN check_rate_limit(limiter, now)
                   ELSE [allowed |-> TRUE, limiter |-> limiter]
    IN  [limiter |-> checked.limiter,
         result |->
            IF ~checked.allowed THEN "KomodoLowFeeLimit"
            ELSE IF reject_absurd_fee /\ absurd_fee(amounts.fee, floor, amounts.output_value)
            THEN "KomodoAbsurdFee"
            ELSE "Ok"]

\* Verifier::call from value_balance to the Response: the result and the limiter
MinerFeeOf(r, facts, limiter, now) ==
    LET tx == r.transaction
        fee_computed == is_coinbase(tx) \/ "incorrect_fee" \notin facts
        valid == IF ~is_coinbase(tx) /\ fee_computed /\ r.kind = "Mempool"
                 THEN komodo_miner_fee_valid_for_mempool(limiter, now, min_relay_txfee,
                          r.amounts, r.check_low_fee, r.reject_absurd_fee)
                 ELSE [limiter |-> limiter, result |-> "Ok"]
    IN  [limiter |-> valid.limiter,
         result |-> FirstError(<<
            IF fee_computed THEN "Ok" ELSE "IncorrectFee",
            valid.result,
            IF r.kind = "Block" /\ "sigop_error" \in facts THEN "SigopCountError" ELSE "Ok",
            IF r.kind = "Block" THEN "Response::Block" ELSE "Response::Mempool">>)]

MinerFee ==
    /\ v_pc = "miner_fee"
    /\ \E facts \in OneOf({"incorrect_fee", "sigop_error"}),
          now \in rate_limiter.last_refill..MaxNow :
         LET fee == MinerFeeOf(req, facts, rate_limiter, now) IN
            /\ ReturnsOrGoesOn(fee.result, "done")
            /\ rate_limiter' = fee.limiter
    /\ UNCHANGED <<req, state_requests, input_index, spent_outputs, spent_utxos,
                   lookup_elapsed, async_checks, failed_checks, restOfVerifier>>

VerifierNext ==
    \/ BasicChecks
    \/ InterestLockTime
    \/ AwaitBlockAnswer
    \/ MedianTimePastAnswer
    \/ LastBlockTime
    \/ LastBlockTimeAnswer
    \/ BannedInputs
    \/ SpentUtxos
    \/ LookupWaits
    \/ UtxoAnswer
    \/ DepositAndOpret
    \/ Dispatch
    \/ AsyncChecksAnswer
    \/ MinerFee

VerifierSpec == VerifierInit /\ [][VerifierNext]_vars

FeeSpec == FeeInit /\ [][VerifierNext]_vars

----------------------------------------------------------------------------
(* Concurrent verifications at the low-fee check of one fee-rate limiter *)

\* everything but the limiter and its callers
restOfLimiter == <<handshakeVars, book_len, connVars, txVars, checkVars, fnVars>>

\* every invocation verifies a Mempool request on the low-fee path, and is
\* suspended at the last await before the fee check: async_checks.check()
LimiterInit ==
    /\ selfConn = FALSE
    /\ tip = 0
    /\ book_len = 0
    /\ HandshakesIdle
    /\ NoConnection
    /\ NoVerification
    /\ NoAsyncChecks
    /\ NoCall
    /\ rate_limiter \in Limiters
    /\ holder = 0
    /\ callers = [i \in Callers |->
                    [pc |-> "awaiting", now |-> 0, tokens |-> 0, result |-> "none"]]

\* a Mutex that anyone may lock at any time
can_lock_always(h) == TRUE

\* Mutex::lock returns once no one holds the Mutex
can_lock(h) == h = 0

\* the invocation is polled, runs up to the fee check and locks the limiter
Lock(i) ==
    /\ callers[i].pc = "awaiting"
    /\ can_lock(holder)
    /\ holder' = i
    /\ callers' = [callers EXCEPT ![i].pc = "locked"]
    /\ UNCHANGED <<rate_limiter, restOfLimiter>>

\* check_rate_limit(tx, Utc::now()): the tokens are refilled
Refill(i) ==
    /\ callers[i].pc = "locked"
    /\ \E now \in rate_limiter.last_refill..MaxNow :
            /\ rate_limiter' = refill(rate_limiter, now)
            /\ callers' = [callers EXCEPT ![i].pc = "refilled", ![i].now = now]
    /\ UNCHANGED <<holder, restOfLimiter>>

\* check_rate_limit: the tokens are read
ReadTokens(i) ==
    /\ callers[i].pc = "refilled"
    /\ callers' = [callers EXCEPT ![i].pc = "read", ![i].tokens = rate_limiter.tokens]
    /\ UNCHANGED <<rate_limiter, holder, restOfLimiter>>

\* check_rate_limit: a token is deducted from the tokens read, or none is
Deduct(i) ==
    /\ callers[i].pc = "read"
    /\ rate_limiter' = deduct(rate_limiter, callers[i].tokens)
    /\ callers' = [callers EXCEPT ![i].pc = "decided",
                                  ![i].result = IF allows(callers[i].tokens) THEN "Ok"
                                                ELSE "KomodoLowFeeLimit"]
    /\ UNCHANGED <<holder, restOfLimiter>>

\* the guard of the Mutex is dropped at the end of the `if let`, and the
\* invocation goes on to its end without another await
Unlock(i) ==
    /\ callers[i].pc = "decided"
    /\ holder' = IF holder = i THEN 0 ELSE holder
    /\ callers' = [callers EXCEPT ![i].pc = "done"]
    /\ UNCHANGED <<rate_limiter, restOfLimiter>>

LimiterNext ==
    \E i \in Callers :
        \/ Lock(i)
        \/ Refill(i)
        \/ ReadTokens(i)
        \/ Deduct(i)
        \/ Unlock(i)

LimiterSpec == LimiterInit /\ [][LimiterNext]_vars

----------------------------------------------------------------------------
(* AsyncChecks: a set built as a.and(b), then checked *)

\* the most futures pushed into one set
MaxChecks == 2

\* everything but the AsyncChecks set
restOfChecks == <<handshakeVars, book_len, connVars, txVars, fnVars, limiterVars>>

\* AsyncChecks::new, twice: `a` and `b` are empty
ChecksInit ==
    /\ selfConn = FALSE
    /\ tip = 0
    /\ book_len = 0
    /\ HandshakesIdle
    /\ NoConnection
    /\ NoVerification
    /\ NoCall
    /\ NoLimiterUse
    /\ ac_pc = "building"
    /\ checks_a = {}
    /\ checks_b = {}
    /\ completed = << >>
    /\ check_result = "none"

\* the n-th future pushed into the set `of`
Future(of, n) == [of |-> of, n |-> n]

\* AsyncChecks::push
push(checks, of) == checks \cup {Future(of, Cardinality(checks) + 1)}

PushA ==
    /\ ac_pc = "building"
    /\ Cardinality(checks_a) < MaxChecks
    /\ checks_a' = push(checks_a, "a")
    /\ UNCHANGED <<ac_pc, checks_b, completed, check_result, restOfChecks>>

PushB ==
    /\ ac_pc = "building"
    /\ Cardinality(checks_b) < MaxChecks
    /\ checks_b' = push(checks_b, "b")
    /\ UNCHANGED <<ac_pc, checks_a, completed, check_result, restOfChecks>>

\* a set that forgets the futures of the other
extend_nothing(self, checks) == self

\* FuturesUnordered::extend
extend(self, checks) == self \cup checks

\* a.and(b), which moves the futures of `b` into `a`; check is called on the result
And ==
    /\ ac_pc = "building"
    /\ checks_a' = extend(checks_a, checks_b)
    /\ checks_b' = {}
    /\ ac_pc' = "checking"
    /\ UNCHANGED <<completed, check_result, restOfChecks>>

\* the futures of the set that did not complete
Pending == checks_a \ {completed[i].future : i \in DOMAIN completed}

\* AsyncChecks::check: next() yields a future that completed; `check?` returns
\* its error, which drops the set, or the loop goes on
CheckNext ==
    /\ ac_pc = "checking"
    /\ \E f \in Pending, output \in {"Ok", "Err"} :
            /\ completed' = Append(completed, [future |-> f, output |-> output])
            /\ IF output = "Err"
               THEN check_result' = <<"Err", f>> /\ ac_pc' = "returned"
               ELSE UNCHANGED <<check_result, ac_pc>>
    /\ UNCHANGED <<checks_a, checks_b, restOfChecks>>

\* AsyncChecks::check: next() yields None, the set is empty
CheckOk ==
    /\ ac_pc = "checking"
    /\ Pending = {}
    /\ check_result' = <<"Ok">>
    /\ ac_pc' = "returned"
    /\ UNCHANGED <<checks_a, checks_b, completed, restOfChecks>>

ChecksNext ==
    \/ PushA
    \/ PushB
    \/ And
    \/ CheckNext
    \/ CheckOk

ChecksSpec == ChecksInit /\ [][ChecksNext]_vars

----------------------------------------------------------------------------
(* The checks of check.rs and transaction.rs that read their arguments only *)

\* the latest height and time of the model; heights start at 0, and a time is
\* never 0 (a lock time below 500,000,000 is a height)
MaxLockTime == 2

\* LockTime
LockTimes ==
    {[kind |-> "Height", value |-> h] : h \in 0..MaxLockTime}
        \cup {[kind |-> "Time", value |-> t] : t \in 1..MaxLockTime}

\* LockTime::unlocked
unlocked == [kind |-> "Height", value |-> 0]

\* the sequence number of an input, as its distance below u32::MAX: 0 is
\* 0xFFFFFFFF, 1 is 0xFFFFFFFE, 2 stands for every lower number
SequenceNumbers == 0..2

\* everything but the call of the check
restOfCall == <<handshakeVars, book_len, connVars, txVars, checkVars, limiterVars>>

\* a call of the check `fn` with arguments of the set `inputs`
CallOf(fn, inputs) ==
    /\ selfConn = FALSE
    /\ tip = 0
    /\ book_len = 0
    /\ HandshakesIdle
    /\ NoConnection
    /\ NoVerification
    /\ NoAsyncChecks
    /\ NoLimiterUse
    /\ fn_input \in inputs
    /\ fn_input.fn = fn
    /\ fn_output = "none"

\* f_exception with a lock time that is equal counted in
f_exception_or_equal(lock_time, block_height, block_time) ==
    IF lock_time.kind = "Height" THEN lock_time.value >= block_height
    ELSE lock_time.value >= block_time

\* is_final_tx_komodo: f_exception, the lock time is after the block
f_exception(lock_time, block_height, block_time) ==
    IF lock_time.kind = "Height" THEN lock_time.value > block_height
    ELSE lock_time.value > block_time

\* check::is_final_tx_komodo on a transaction with a lock time and the sequence
\* numbers of its inputs; hf is what komodo_s1_december_hardfork_active answers
\* for block_height - 1
is_final_tx_komodo_at(tx, block_height, block_time, hf) ==
    LET lock_time == tx.lock_time
        hf_active == IF block_height - 1 >= 0 THEN hf ELSE FALSE
        non_final(sequence_number) ==
            IF ~hf_active /\ sequence_number = 1
                  /\ f_exception(lock_time, block_height, block_time)
            THEN FALSE
            ELSE IF hf_active /\ sequence_number = 1
                  /\ ~f_exception(lock_time, block_height, block_time)
            THEN FALSE
            ELSE sequence_number # 0
        tx_is_non_final == \E i \in DOMAIN tx.sequences : non_final(tx.sequences[i])
    IN  IF lock_time = unlocked THEN "Ok"
        ELSE IF lock_time.kind = "Height" /\ lock_time.value < block_height THEN "Ok"
        ELSE IF lock_time.kind = "Time" /\ lock_time.value < block_time THEN "Ok"
        ELSE IF tx_is_non_final
        THEN IF lock_time.kind = "Height" THEN "LockedUntilAfterBlockHeight"
             ELSE "LockedUntilAfterBlockTime"
        ELSE "Ok"

\* the arguments of is_final_tx_komodo
FinalityInputs ==
    [fn : {"is_final_tx_komodo"},
     tx : [lock_time : LockTimes,
           sequences : UNION {[1..n -> SequenceNumbers] : n \in 0..MaxInputs}],
     block_height : 0..MaxLockTime, block_time : 1..MaxLockTime, hf : BOOLEAN]

FinalityInit == CallOf("is_final_tx_komodo", FinalityInputs)

IsFinalTx ==
    /\ fn_output = "none"
    /\ fn_input.fn = "is_final_tx_komodo"
    /\ fn_output' = is_final_tx_komodo_at(fn_input.tx, fn_input.block_height,
                                          fn_input.block_time, fn_input.hf)
    /\ UNCHANGED <<fn_input, restOfCall>>

FinalitySpec == FinalityInit /\ [][IsFinalTx]_vars

\* interest::KOMODO_MAXMEMPOOLTIME, in seconds
KOMODO_MAXMEMPOOLTIME == 3600

\* a time late enough for every lock time compared with it to be a time
BaseTime == 500100000

\* how far, in seconds, a lock time is taken from the bound it is compared with
MaxOffset == 1

\* the block time, the median time past of the tip and that of the previous block
BlockTimes == {BaseTime + 5000}
TipMedianTimes == {BaseTime}
PreviousMedianTimes == {BaseTime + 10000}

\* the time locks around every bound the check may compare with
TimeLocks ==
    {[kind |-> "Time", value |-> cmp_time - adj - KOMODO_MAXMEMPOOLTIME + d] :
        cmp_time \in BlockTimes \cup {mtp + 777 : mtp \in TipMedianTimes \cup PreviousMedianTimes},
        adj \in {0, 16000}, d \in (0 - MaxOffset)..MaxOffset}

\* the check with a lock time equal to the bound refused
komodo_validate_interest_locktime_or_equal(lock_time, validate_active, adjust_active, cmp_time) ==
    IF lock_time.kind = "Time" /\ validate_active
    THEN LET cmp_time_adj == IF adjust_active THEN cmp_time - 16000 ELSE cmp_time
         IN  IF lock_time.value <= cmp_time_adj - KOMODO_MAXMEMPOOLTIME
             THEN "KomodoTxLockTimeTooEarly" ELSE "Ok"
    ELSE "Ok"

\* komodo_validate_interest_locktime; validate_active and adjust_active are what
\* komodo_interest_validate_locktime_active and
\* komodo_interest_adjust_max_mempool_time_active answer for tx_height
komodo_validate_interest_locktime_at(lock_time, validate_active, adjust_active, cmp_time) ==
    IF lock_time.kind = "Time" /\ validate_active
    THEN LET cmp_time_adj == IF adjust_active THEN cmp_time - 16000 ELSE cmp_time
         IN  IF lock_time.value < cmp_time_adj - KOMODO_MAXMEMPOOLTIME
             THEN "KomodoTxLockTimeTooEarly" ELSE "Ok"
    ELSE "Ok"

\* Verifier::call: the time the interest lock-time step compares with;
\* gap_allowed is what komodo_is_gap_after_second_block_allowed answers
cmp_time_of(in) ==
    IF in.kind = "Mempool" THEN in.mtp_none + 777
    ELSE IF in.gap_allowed THEN in.mtp_previous + 777
    ELSE in.time

\* the arguments of the interest lock-time step: the request's kind and lock
\* time, the block's time, the answers of GetMedianTimePast and of the rules
InterestInputs ==
    [fn : {"interest_locktime"}, kind : {"Mempool", "Block"},
     lock_time : LockTimes \cup TimeLocks, time : BlockTimes,
     mtp_none : TipMedianTimes, mtp_previous : PreviousMedianTimes,
     validate_active : BOOLEAN, adjust_active : BOOLEAN, gap_allowed : BOOLEAN]

InterestInit == CallOf("interest_locktime", InterestInputs)

ValidateInterestLockTime ==
    /\ fn_output = "none"
    /\ fn_input.fn = "interest_locktime"
    /\ fn_output' = komodo_validate_interest_locktime_at(fn_input.lock_time,
                        fn_input.validate_active, fn_input.adjust_active,
                        cmp_time_of(fn_input))
    /\ UNCHANGED <<fn_input, restOfCall>>

InterestSpec == InterestInit /\ [][ValidateInterestLockTime]_vars

(* check::spend_conflicts *)

\* the most outpoints, and the most nullifiers of a pool, of a transaction
MaxSpends == 2

\* the bit patterns of outpoints and nullifiers
BitPatterns == {"aa", "bb"}

\* what a transaction spends: Transaction::spent_outpoints, sprout_nullifiers,
\* sapling_nullifiers and orchard_nullifiers, each in the order of the
\* transaction
Spends ==
    LET Items == UNION {[1..n -> BitPatterns] : n \in 0..MaxSpends}
    IN  [transparent : Items, sprout : Items, sapling : Items, orchard : Items]

\* check_for_duplicates: the loop from the item at position i, with the items
\* before it in the hash set
RECURSIVE check_for_duplicates_from(_, _, _, _)
check_for_duplicates_from(items, i, hash_set, error_wrapper) ==
    IF i > Len(items) THEN "Ok"
    ELSE IF items[i] \in hash_set THEN error_wrapper
    ELSE check_for_duplicates_from(items, i + 1, hash_set \cup {items[i]}, error_wrapper)

\* check::check_for_duplicates
check_for_duplicates(items, error_wrapper) ==
    check_for_duplicates_from(items, 1, {}, error_wrapper)

\* spend_conflicts with the nullifiers of the three pools in one set
spend_conflicts_one_set(spends) ==
    FirstError(<<
        check_for_duplicates(spends.transparent, "DuplicateTransparentSpend"),
        check_for_duplicates(spends.sprout, "DuplicateSproutNullifier"),
        check_for_duplicates(spends.sprout \o spends.sapling, "DuplicateSaplingNullifier"),
        check_for_duplicates(spends.sprout \o spends.sapling \o spends.orchard,
                             "DuplicateOrchardNullifier")>>)

\* check::spend_conflicts, of what the transaction spends
spend_conflicts_of(spends) ==
    FirstError(<<
        check_for_duplicates(spends.transparent, "DuplicateTransparentSpend"),
        check_for_duplicates(spends.sprout, "DuplicateSproutNullifier"),
        check_for_duplicates(spends.sapling, "DuplicateSaplingNullifier"),
        check_for_duplicates(spends.orchard, "DuplicateOrchardNullifier")>>)

ConflictInit ==
    CallOf("spend_conflicts", [fn : {"spend_conflicts"}, spends : Spends])

SpendConflicts ==
    /\ fn_output = "none"
    /\ fn_input.fn = "spend_conflicts"
    /\ fn_output' = spend_conflicts_of(fn_input.spends)
    /\ UNCHANGED <<fn_input, restOfCall>>

ConflictSpec == ConflictInit /\ [][SpendConflicts]_vars

(* check::non_coinbase_expiry_height *)

\* Height::MAX_EXPIRY_HEIGHT
MAX_EXPIRY_HEIGHT == 499999999

\* the largest of the small heights
MaxExpiry == 3

\* block heights and nExpiryHeight fields: the small ones, and those around
\* Height::MAX_EXPIRY_HEIGHT
ExpiryHeights == 0..MaxExpiry \cup {MAX_EXPIRY_HEIGHT - 1, MAX_EXPIRY_HEIGHT, MAX_EXPIRY_HEIGHT + 1}

\* Option<Height>
NoHeight == [some |-> FALSE]
SomeHeight(h) == [some |-> TRUE, height |-> h]

\* Transaction::expiry_height: None without the field (V1, V2) and for a field
\* of zero
expiry_height(tx) ==
    IF ~tx.overwintered \/ tx.n_expiry_height = 0 THEN NoHeight
    ELSE SomeHeight(tx.n_expiry_height)

\* check::validate_expiry_height_max, of the expiry height
validate_expiry_height_max_of(expiry) ==
    IF expiry.some /\ expiry.height > MAX_EXPIRY_HEIGHT
    THEN "MaximumExpiryHeight" ELSE "Ok"

\* the check with a transaction that expires at its own height
validate_expiry_height_mined_or_equal(expiry, block_height) ==
    IF expiry.some /\ block_height >= expiry.height
    THEN "ExpiredTransaction" ELSE "Ok"

\* check::validate_expiry_height_mined, of the expiry height
validate_expiry_height_mined_of(expiry, block_height) ==
    IF expiry.some /\ block_height > expiry.height
    THEN "ExpiredTransaction" ELSE "Ok"

\* check::non_coinbase_expiry_height, of the fields of the transaction
non_coinbase_expiry_height_at(block_height, tx) ==
    IF tx.overwintered
    THEN FirstError(<<validate_expiry_height_max_of(expiry_height(tx)),
                      validate_expiry_height_mined_of(expiry_height(tx), block_height)>>)
    ELSE "Ok"

ExpiryInit ==
    CallOf("non_coinbase_expiry_height",
           [fn : {"non_coinbase_expiry_height"}, block_height : ExpiryHeights,
            tx : [overwintered : BOOLEAN, n_expiry_height : ExpiryHeights]])

NonCoinbaseExpiryHeight ==
    /\ fn_output = "none"
    /\ fn_input.fn = "non_coinbase_expiry_height"
    /\ fn_output' = non_coinbase_expiry_height_at(fn_input.block_height, fn_input.tx)
    /\ UNCHANGED <<fn_input, restOfCall>>

ExpirySpec == ExpiryInit /\ [][NonCoinbaseExpiryHeight]_vars

(* NetworkUpgrade: activation heights *)

\* block::Height::MAX
Height_MAX == 2147483647

\* the largest height Overwinter and Sapling activate at
MaxSapling == 4

\* an entry of the activation heights of a network
Activation(height, upgrade) == [height |-> height, upgrade |-> upgrade]

\* the upgrades that are not used, set at Height::MAX, if they are listed
UnusedUpgrades ==
    {<< >>,
     <<Activation(Height_MAX, "Blossom"), Activation(Height_MAX, "Heartwood"),
       Activation(Height_MAX, "Canopy"), Activation(Height_MAX, "Nu5")>>}

\* activation heights with a height of its own for every upgrade
ActivationHeightsApart(sapling, unused) ==
    <<Activation(0, "Genesis"), Activation(1, "BeforeOverwinter"),
      Activation(sapling - 1, "Overwinter"), Activation(sapling, "Sapling")>> \o unused

\* activation heights that list Sapling before Overwinter
ActivationHeightsSaplingFirst(sapling, unused) ==
    <<Activation(0, "Genesis"), Activation(1, "BeforeOverwinter"),
      Activation(sapling, "Sapling"), Activation(sapling, "Overwinter")>> \o unused

\* MAINNET_ACTIVATION_HEIGHTS and TESTNET_ACTIVATION_HEIGHTS, as far as the
\* tests of the parameters fix them: Genesis at 0, BeforeOverwinter at 1,
\* Overwinter and Sapling at one height above 2
ActivationHeights(sapling, unused) ==
    <<Activation(0, "Genesis"), Activation(1, "BeforeOverwinter"),
      Activation(sapling, "Overwinter"), Activation(sapling, "Sapling")>> \o unused

\* the activation heights a network may have
Networks == {ActivationHeights(sapling, unused) : sapling \in 3..MaxSapling,
                                                   unused \in UnusedUpgrades}

\* the heights of the entries
HeightsOf(activations) == {activations[i].height : i \in DOMAIN activations}

\* NetworkUpgrade::activation_list: the entries collected into a map from
\* heights to upgrades, a later entry replacing an earlier one of its height
activation_list(activations) ==
    [h \in HeightsOf(activations) |->
        LET i == CHOOSE i \in DOMAIN activations :
                    /\ activations[i].height = h
                    /\ \A j \in DOMAIN activations : activations[j].height = h => j <= i
        IN  activations[i].upgrade]

\* NetworkUpgrade::current: the last entry of the map at or below the height
current(activations, height) ==
    LET list == activation_list(activations)
        at == CHOOSE k \in DOMAIN list :
                k <= height /\ \A l \in DOMAIN list : l <= height => l <= k
    IN  list[at]

\* NetworkUpgrade::next: the first entry of the map above the height
next(activations, height) ==
    LET list == activation_list(activations)
        above == {k \in DOMAIN list : k > height}
    IN  IF above = {} THEN "None"
        ELSE list[CHOOSE k \in above : \A l \in above : k <= l]

\* NetworkUpgrade::activation_height: the height the upgrade is listed at
activation_height(activations, upgrade) ==
    IF \E i \in DOMAIN activations : activations[i].upgrade = upgrade
    THEN SomeHeight((CHOOSE a \in {activations[i] : i \in DOMAIN activations} :
                        a.upgrade = upgrade).height)
    ELSE NoHeight

\* the heights the functions are called with
CheckedHeights == 0..(MaxSapling + 1) \cup {Height_MAX - 1, Height_MAX}

UpgradeInit ==
    \/ CallOf("current", [fn : {"current"}, network : Networks, height : CheckedHeights])
    \/ CallOf("next", [fn : {"next"}, network : Networks, height : CheckedHeights])
    \/ CallOf("current_at_activation",
              [fn : {"current_at_activation"}, network : Networks, upgrade : NetworkUpgrade])

Current ==
    /\ fn_output = "none"
    /\ fn_input.fn = "current"
    /\ fn_output' = current(fn_input.network, fn_input.height)
    /\ UNCHANGED <<fn_input, restOfCall>>

NextUpgrade ==
    /\ fn_output = "none"
    /\ fn_input.fn = "next"
    /\ fn_output' = next(fn_input.network, fn_input.height)
    /\ UNCHANGED <<fn_input, restOfCall>>

\* activation_consistent: NetworkUpgrade::current at the activation height of
\* an upgrade, if it has one
current_at_activation(activations, upgrade) ==
    LET height == activation_height(activations, upgrade)
    IN  IF height.some THEN current(activations, height.height) ELSE "None"

CurrentAtActivation ==
    /\ fn_output = "none"
    /\ fn_input.fn = "current_at_activation"
    /\ fn_output' = current_at_activation(fn_input.network, fn_input.upgrade)
    /\ UNCHANGED <<fn_input, restOfCall>>

UpgradeNext ==
    \/ Current
    \/ NextUpgrade
    \/ CurrentAtActivation

UpgradeSpec == UpgradeInit /\ [][UpgradeNext]_vars

----------------------------------------------------------------------------
(* Properties of the handshake *)

InLog(h, e) == \E i \in DOMAIN log[h] : log[h][i] = e

\* the position of the first e in the log of h, 0 if there is none
Pos(h, e) ==
    IF InLog(h, e)
        THEN CHOOSE i \in DOMAIN log[h] :
                log[h][i] = e /\ \A j \in 1..(i - 1) : log[h][j] # e
        ELSE 0

\* this step is the critical section of h on the nonce set: h leaves
\* "check_nonce" otherwise than by the timeout
ChecksNonce(h) ==
    pc[h] = "check_nonce" /\ pc'[h] # "check_nonce" /\ result'[h] # "Elapsed"

\* results that are a HandshakeError
HandshakeErrors == {"ConnectionClosed", "UnexpectedMessage", "NonceReuse",
                    "ObsoleteVersion", "IoError"}

\* results that come from outside the two handshakes
Faults == {"Elapsed", "IoError"}

\* C1: a peer nonce that is in the nonce set when the handshake checks it
\* makes the handshake fail with NonceReuse, for good (no Client is returned
\* later), and the local nonce stays in the set until that check
C1_NonceReuseDetected ==
    /\ [][\A h \in Handshakes :
            /\ (ChecksNonce(h) /\ remote[h].nonce \in nonces)
                    => result'[h] = "NonceReuse"
            /\ result[h] # "none" => result'[h] = result[h]]_vars
    /\ [](\A h \in Handshakes :
            pc[h] \in {"send_version", "wait_version", "check_nonce"}
                => local_nonce[h] \in nonces)

\* an external peer echoed a nonce of the set and the handshake failed on it
C1_Witness ==
    \E h \in Handshakes : ~selfConn /\ result[h] = "NonceReuse" /\ ~spawned[h]

\* C2 as claimed: in the self-connection scenario, with no timeout and no I/O
\* error on either side, the inbound handshake ends with NonceReuse
C2_InboundAlwaysNonceReuse ==
    (/\ selfConn
     /\ result["in"] \notin ({"none"} \cup Faults)
     /\ result["out"] \notin Faults)
        => result["in"] = "NonceReuse"

\* C2 amended: in the self-connection scenario neither handshake returns a
\* Client; the handshake that checks the peer nonce while its partner's nonce
\* is still in the set fails with NonceReuse; and when neither side times out
\* or has an I/O error, one of the two ends with NonceReuse and the other with
\* ConnectionClosed
C2_SelfConnectionRejected ==
    /\ [](selfConn =>
            /\ \A h \in Handshakes : result[h] # "Client" /\ ~spawned[h]
            /\ (\A h \in Handshakes : result[h] \notin ({"none"} \cup Faults))
                    => {result["in"], result["out"]} = {"NonceReuse", "ConnectionClosed"})
    /\ [][\A h \in Handshakes :
            (selfConn /\ ChecksNonce(h) /\ local_nonce[Partner(h)] \in nonces)
                => result'[h] = "NonceReuse"]_vars

\* the outbound side checked first: it got NonceReuse, the inbound side did not
C2_Witness ==
    /\ selfConn
    /\ result["out"] = "NonceReuse"
    /\ result["in"] = "ConnectionClosed"
    /\ InLog("in", "ChecksPassed")

\* C3 as claimed: the nonce set holds only local nonces of handshakes in
\* flight, so a handshake that has ended has no nonce in the set
C3_NonceSetOnlyInFlight ==
    /\ \A h \in Handshakes : result[h] # "none" => local_nonce[h] \notin nonces
    /\ nonces \subseteq {local_nonce[h] : h \in {g \in Handshakes : pc[g] \in InFlight}}

\* C4 as claimed: a peer Version below the minimum version of the moment makes
\* the handshake fail with ObsoleteVersion
C4_ObsoleteAlwaysObsoleteVersion ==
    [][\A h \in Handshakes :
        (ChecksNonce(h) /\ remote[h].version < MinimumPeerVersionCurrent(tip))
            => result'[h] = "ObsoleteVersion"]_vars

\* C4 amended: a peer Version below the minimum version sampled when the
\* handshake checks it makes the handshake fail, with ObsoleteVersion unless
\* the nonce check that runs first failed it with NonceReuse, and no Verack
\* is sent: whoever sent a Verack had read a version at or above the minimum
C4_ObsoleteNeverVerack ==
    /\ [][\A h \in Handshakes :
            /\ (ChecksNonce(h) /\ remote[h].version < MinimumPeerVersionCurrent(tip))
                    => /\ result'[h] \in {"ObsoleteVersion", "NonceReuse"}
                       /\ result'[h] = "NonceReuse" <=> remote[h].nonce \in nonces
                       /\ ~InLog(h, "SendVerack")
                       /\ log'[h] = log[h]
            /\ (pc[h] = "check_nonce" /\ pc'[h] = "send_verack")
                    => remote[h].version >= MinimumPeerVersionCurrent(tip)]_vars
    /\ [](\A h \in Handshakes :
            /\ InLog(h, "SendVerack") => InLog(h, "ChecksPassed")
            /\ result[h] = "ObsoleteVersion" => ~InLog(h, "SendVerack"))

\* an obsolete peer was rejected after its Version was read, with no Verack sent
C4_Witness ==
    \E h \in Handshakes :
        /\ result[h] = "ObsoleteVersion"
        /\ InLog(h, "RecvVersion")
        /\ ~InLog(h, "SendVerack")

\* the events of a handshake that goes through, in the order of the code
HandshakeOrder ==
    << "SendVersion", "RecvVersion", "ChecksPassed", "SendVerack", "RecvVerack", "Client" >>

NotSkip(e) == e \notin SkipEvents

IsPrefix(a, b) == Len(a) <= Len(b) /\ a = SubSeq(b, 1, Len(a))

\* C5: what a handshake sent and accepted is, at every moment, a prefix of:
\* our Version sent, peer Version received, checks passed, our Verack sent,
\* peer Verack received, Client returned; and a Client is returned exactly
\* when the whole sequence happened
C5_HandshakeOrder ==
    \A h \in Handshakes :
        /\ IsPrefix(SelectSeq(log[h], NotSkip), HandshakeOrder)
        /\ result[h] = "Client" <=> SelectSeq(log[h], NotSkip) = HandshakeOrder
        /\ pc[h] \in {"wait_verack", "book_send", "running"} => InLog(h, "SendVerack")

\* a Client was returned after the whole exchange
C5_Witness ==
    \E h \in Handshakes :
        result[h] = "Client" /\ pc[h] = "running" /\ Pos(h, "SendVerack") = 4

\* C6: the wait for the peer's Version ends only with a Version (or with the
\* stream failing or the timeout), the wait for the Verack only with a Verack;
\* a discarded message changes nothing of the handshake; every discarded
\* Verack came before the peer's Version and every discarded Version after our
\* Verack, and the Verack that completes a handshake was read after our Verack
C6_SkippedMessages ==
    /\ [][\A h \in Handshakes :
            /\ (pc[h] = "wait_version" /\ pc'[h] # "wait_version")
                    => \/ pc'[h] = "check_nonce" /\ remote'[h].type = "Version"
                       \/ pc'[h] = "failed"
                            /\ result'[h] \in {"IoError", "ConnectionClosed", "Elapsed"}
            /\ (pc[h] = "wait_verack" /\ pc'[h] # "wait_verack")
                    => \/ pc'[h] \in {"book_send", "running"} /\ InLog(h, "RecvVerack")'
                       \/ pc'[h] = "failed"
                            /\ result'[h] \in {"IoError", "ConnectionClosed", "Elapsed"}
            /\ (Skipped(h)' > Skipped(h))
                    => /\ pc'[h] = pc[h] /\ result'[h] = result[h]
                       /\ remote'[h] = remote[h] /\ nonces' = nonces]_vars
    /\ [](\A h \in Handshakes :
            /\ \A i \in DOMAIN log[h] :
                /\ log[h][i] = "SkipVerack"
                        => \A j \in 1..i : log[h][j] # "RecvVersion"
                /\ log[h][i] = "SkipVersion"
                        => /\ \E j \in 1..i : log[h][j] = "SendVerack"
                           /\ \A j \in 1..i : log[h][j] # "RecvVerack"
            /\ result[h] = "Client"
                    => Pos(h, "RecvVersion") < Pos(h, "SendVerack")
                        /\ Pos(h, "SendVerack") < Pos(h, "RecvVerack"))

\* a handshake went through although a Verack arrived before the peer's Version
C6_Witness ==
    \E h \in Handshakes :
        /\ result[h] = "Client"
        /\ InLog(h, "SkipVerack")
        /\ Pos(h, "SkipVerack") < Pos(h, "RecvVersion")

\* C7: the codec keeps its initial version at every await point of the
\* handshake, and once the Client is returned it holds the smaller of our
\* version and the peer's, installed after the peer's Verack was read
C7_CodecVersion ==
    \A h \in Handshakes :
        /\ pc[h] # "running" => codec_version[h] = NoVersion
        /\ pc[h] = "running"
                => /\ codec_version[h] <= CURRENT_NETWORK_PROTOCOL_VERSION
                   /\ codec_version[h] <= remote_version[h]
                   /\ codec_version[h] \in {CURRENT_NETWORK_PROTOCOL_VERSION, remote_version[h]}
                   /\ InLog(h, "RecvVerack")

\* the peer announced a newer version and the codec was set to ours
C7_Witness ==
    \E h \in Handshakes :
        /\ pc[h] = "running"
        /\ remote_version[h] > CURRENT_NETWORK_PROTOCOL_VERSION
        /\ codec_version[h] = CURRENT_NETWORK_PROTOCOL_VERSION

\* C8: every handshake that was called ends, with a Client or with an error
C8_HandshakeCompletes ==
    \A h \in Handshakes : (pc[h] # "idle") ~> (result[h] # "none")

\* the peer never sent its Version and the handshake was ended by the timeout
C8_Witness ==
    \E h \in Handshakes : result[h] = "Elapsed" /\ log[h] = << "SendVersion" >>

\* C9: a handshake that failed dropped its connection tracker once, which took
\* one off the open connection count; a handshake that returned a Client gave
\* its tracker to the connection and dropped nothing
C9_TrackerDroppedOnce ==
    /\ \A h \in Handshakes :
        /\ result[h] \notin {"none", "Client"}
                => tracker[h] = "dropped" /\ tracker_drops[h] = 1
        /\ result[h] = "Client" => tracker[h] = "connection" /\ tracker_drops[h] = 0
        /\ result[h] = "none"
                => tracker[h] \in {"request", "handshake"} /\ tracker_drops[h] = 0
    /\ open_connections =
            Cardinality(Handshakes) - tracker_drops["out"] - tracker_drops["in"]

\* an obsolete peer was rejected and the count of open connections went down
C9_Witness ==
    \E h \in Handshakes :
        /\ result[h] = "ObsoleteVersion"
        /\ tracker_drops[h] = 1
        /\ open_connections < Cardinality(Handshakes)

\* C10 as claimed: a handshake that ended with an error or with the timeout
\* has sent nothing to the address book and spawned no task
C10_NoPartialProgress ==
    \A h \in Handshakes :
        result[h] \notin {"none", "Client"} => updates[h] = << >> /\ ~spawned[h]

\* C10 amended: a handshake that ended with a HandshakeError has sent nothing
\* to the address book and spawned no task; a handshake ended by the timeout
\* has spawned no task and left the codec alone, but may have sent some of its
\* address-book changes, never all of them
C10_NoPartialProgressOnError ==
    \A h \in Handshakes :
        /\ result[h] \in HandshakeErrors => updates[h] = << >> /\ ~spawned[h]
        /\ result[h] = "Elapsed"
                => /\ ~spawned[h]
                   /\ codec_version[h] = NoVersion
                   /\ \A i \in DOMAIN updates[h] : updates[h][i][1] # "Responded"
        /\ spawned[h] => result[h] = "Client"
        /\ updates[h] # << >> => InLog(h, "RecvVerack")

\* the timeout ended a handshake that had already sent an alternate address
C10_Witness ==
    \E h \in Handshakes :
        /\ result[h] = "Elapsed"
        /\ updates[h] # << >>
        /\ updates[h][1][1] = "Alternate"

----------------------------------------------------------------------------
(* Properties of an established connection *)

\* C11 as claimed: Isolated exposes neither an address-book address nor a
\* transient address, and both direct variants expose both
C11_DirectExposeBoth ==
    /\ connected_addr.kind = "Isolated"
            => /\ get_address_book_addr(connected_addr) = NoAddr
               /\ get_transient_addr(connected_addr) = NoAddr
    /\ connected_addr.kind \in {"OutboundDirect", "InboundDirect"}
            => /\ get_address_book_addr(connected_addr) # NoAddr
               /\ get_transient_addr(connected_addr) # NoAddr

\* C11 amended: Isolated exposes neither address; OutboundDirect exposes its
\* addr as both; InboundDirect exposes the transient address (maybe_ip,
\* transient_port) and no address-book address, and so do the proxy variants
\* with their transient address
C11_ExposedAddrs ==
    /\ connected_addr.kind = "Isolated"
            => /\ get_address_book_addr(connected_addr) = NoAddr
               /\ get_transient_addr(connected_addr) = NoAddr
    /\ connected_addr.kind = "OutboundDirect"
            => /\ get_address_book_addr(connected_addr) = connected_addr.addr
               /\ get_transient_addr(connected_addr) = connected_addr.addr
    /\ connected_addr.kind = "InboundDirect"
            => /\ get_address_book_addr(connected_addr) = NoAddr
               /\ get_transient_addr(connected_addr)
                    = <<connected_addr.maybe_ip, connected_addr.transient_port>>
    /\ connected_addr.kind = "OutboundProxy"
            => /\ get_address_book_addr(connected_addr) = NoAddr
               /\ get_transient_addr(connected_addr) = connected_addr.transient_local_addr
    /\ connected_addr.kind = "InboundProxy"
            => /\ get_address_book_addr(connected_addr) = NoAddr
               /\ get_transient_addr(connected_addr) = connected_addr.transient_addr

\* an InboundDirect connection read a Ping and, having no address-book address,
\* told the address book nothing
C11_Witness ==
    /\ connected_addr.kind = "InboundDirect"
    /\ inbound > 0
    /\ delivered = Ping
    /\ \A i \in DOMAIN conn_updates : conn_updates[i].by # "inbound"

\* C12: for an Isolated connection nothing is ever sent to the address book, by
\* the handshake, the inbound stream or the heartbeat task, and no inventory
\* change is ever broadcast, whatever is read and however the heartbeat ends
C12_IsolatedEmitsNothing ==
    /\ [](connected_addr.kind = "Isolated"
            => /\ conn_updates = << >>
               /\ inv_last = << >>
               /\ inv_count = 0
               /\ peer_pc # "ts_send"
               /\ hb_pc \notin {"errored_send", "shutdown_send"})
    /\ [][connected_addr.kind = "Isolated" /\ hb_pc # "unspawned"
            => book_len' <= book_len]_vars

\* an Isolated connection read a gossiped block, its heartbeat failed, and
\* nothing was emitted
C12_Witness ==
    /\ connected_addr.kind = "Isolated"
    /\ delivered = Inv(<< <<"Block", 1>> >>)
    /\ hb_result = "ResponseError"
    /\ pings > 0
    /\ conn_updates = << >>
    /\ inv_count = 0

\* the address-book changes an OutboundDirect handshake to ListenAddr owes for a
\* peer that gave canonical address a: the address with its unspecified ip and
\* zero port replaced, if that is not ListenAddr, then Responded for ListenAddr
OutboundChanges(a) ==
    (IF <<IF a[1] = 0 THEN ListenAddr[1] ELSE a[1],
          IF a[2] = 0 THEN ListenAddr[2] ELSE a[2]>> # ListenAddr
        THEN << <<"Alternate", <<IF a[1] = 0 THEN ListenAddr[1] ELSE a[1],
                                 IF a[2] = 0 THEN ListenAddr[2] ELSE a[2]>> >> >>
        ELSE << >>)
    \o << <<"Responded", ListenAddr>> >>

Yields == inbound' = inbound + 1

\* the address-book changes this step sends
NewUpdates == SubSeq(conn_updates', Len(conn_updates) + 1, Len(conn_updates'))

\* C14 as claimed: on a connection that has a book address, every message
\* received from the peer makes the inbound wrapper update the address book
C14_UpdateOnEveryMessage ==
    [][(Yields /\ delivered'.type # "Err"
            /\ get_address_book_addr(connected_addr) # NoAddr)
        => \E i \in DOMAIN NewUpdates : NewUpdates[i].by = "inbound"]_vars

\* C14 amended: on a connection that has a book address the inbound wrapper
\* sends one Responded for that address for every Ping and every Pong it
\* yields, one Errored for every read error, and nothing for any other message;
\* on a connection without a book address it sends nothing; the change is sent
\* before the item is yielded
C14_UpdateOnPingPong ==
    /\ [][Yields =>
            /\ delivered' = peer_item'
            /\ (get_address_book_addr(connected_addr) # NoAddr
                    /\ delivered'.type \in {"Ping", "Pong"})
                => NewUpdates = << [change |-> "Responded", by |-> "inbound",
                                    addr |-> get_address_book_addr(connected_addr)] >>
            /\ (get_address_book_addr(connected_addr) # NoAddr
                    /\ delivered'.type = "Err")
                => NewUpdates = << [change |-> "Errored", by |-> "inbound",
                                    addr |-> get_address_book_addr(connected_addr)] >>
            /\ (get_address_book_addr(connected_addr) = NoAddr
                    \/ delivered'.type \notin {"Ping", "Pong", "Err"})
                => \A i \in DOMAIN NewUpdates : NewUpdates[i].by # "inbound"]_vars
    /\ [][\A i \in DOMAIN NewUpdates : NewUpdates[i].by = "inbound" => Yields]_vars
    /\ [](peer_pc = "ts_send"
            => /\ get_address_book_addr(connected_addr) # NoAddr
               /\ peer_item.type \in {"Ping", "Pong", "Err"})

\* an OutboundDirect connection read an Addr message and the address book was
\* not told
C14_Witness ==
    /\ connected_addr.kind = "OutboundDirect"
    /\ inbound = 1
    /\ delivered = Addr
    /\ \A i \in DOMAIN conn_updates : conn_updates[i].by # "inbound"

\* the inventory change this step broadcast has status st, names the peer by its
\* transient address, and lists the entries of the yielded message whose kind
\* is in `kinds`, in their order; there is no change if there is no such entry
Registers(st, kinds) ==
    IF \A i \in DOMAIN delivered'.inv : delivered'.inv[i][1] \notin kinds
        THEN inv_last' = << >>
        ELSE /\ Len(inv_last') = 1
             /\ inv_last'[1].status = st
             /\ inv_last'[1].addr = get_transient_addr(connected_addr)
             /\ Len(inv_last'[1].inv)
                    = Cardinality({i \in DOMAIN delivered'.inv : delivered'.inv[i][1] \in kinds})
             /\ \A i \in DOMAIN inv_last'[1].inv : inv_last'[1].inv[i][1] \in kinds
             /\ \A i, j \in DOMAIN delivered'.inv :
                    (i < j /\ delivered'.inv[i][1] \in kinds /\ delivered'.inv[j][1] \in kinds)
                        => \E k, l \in DOMAIN inv_last'[1].inv :
                                /\ k < l
                                /\ inv_last'[1].inv[k] = delivered'.inv[i]
                                /\ inv_last'[1].inv[l] = delivered'.inv[j]

\* C15: on a connection with a transient address, an Inv whose one entry is a
\* block registers that block as available from the peer; any other Inv
\* registers its transaction entries alone; a NotFound registers its
\* transaction and block entries as missing; any other item registers nothing;
\* and the item read is the item yielded
C15_InventoryRegistered ==
    [][(Yields /\ get_transient_addr(connected_addr) # NoAddr)
        => /\ delivered' = peer_item'
           /\ inv_count' = inv_count + Len(inv_last')
           /\ (delivered'.type = "Inv" /\ Len(delivered'.inv) = 1
                    /\ delivered'.inv[1][1] = "Block")
                => inv_last' = << [status |-> "Available", inv |-> delivered'.inv,
                                   addr |-> get_transient_addr(connected_addr)] >>
           /\ (delivered'.type = "Inv"
                    /\ ~(Len(delivered'.inv) = 1 /\ delivered'.inv[1][1] = "Block"))
                => Registers("Available", {"Tx"})
           /\ delivered'.type = "NotFound" => Registers("Missing", {"Tx", "Block"})
           /\ delivered'.type \notin {"Inv", "NotFound"} => inv_last' = << >>]_vars

\* an Inv of a transaction and a block registered the transaction alone
C15_Witness ==
    /\ delivered = Inv(<< <<"Tx", 1>>, <<"Block", 1>> >>)
    /\ inv_last = << [status |-> "Available", inv |-> << <<"Tx", 1>> >>,
                      addr |-> get_transient_addr(connected_addr)] >>
    /\ inv_count = 1

\* the errors the heartbeat task returns on a shutdown signal
ShutdownErrors == {"ClientCancelledHeartbeatTask", "ClientDropped"}

\* C16: once the shutdown signal is there the heartbeat task queues no Ping,
\* whether a tick is ready or a heartbeat awaits its response: the next step of
\* the task is the handling of the shutdown, which ends it
C16_ShutdownFirst ==
    /\ [][shutdown_rx # "open" => pings' = pings]_vars
    /\ [][(shutdown_rx # "open" /\ hb_pc \in RunLoop /\ hb_pc' # hb_pc)
            => /\ hb_pc' \in {"shutdown_send", "returned"}
               /\ hb_pc' = "returned" => hb_result' \in ShutdownErrors
               /\ hb_pc' = "shutdown_send" => hb_err' \in ShutdownErrors]_vars
    /\ [](hb_pc = "shutdown_send" => shutdown_rx # "open" /\ hb_err \in ShutdownErrors)

\* the shutdown was handled while a tick was ready, and the tick was never taken
C16_Witness ==
    /\ hb_pc = "returned"
    /\ hb_result \in ShutdownErrors
    /\ tick
    /\ pings = 0

\* the address-book changes the heartbeat task sent
HeartbeatUpdates == SelectSeq(conn_updates, LAMBDA u : u.by = "heartbeat")

\* the change the heartbeat task owes the address book on a connection: one,
\* for the book address, if there is a book address
HeartbeatOwes(change) ==
    IF get_address_book_addr(connected_addr) = NoAddr
        THEN << >>
        ELSE << [change |-> change, by |-> "heartbeat",
                 addr |-> get_address_book_addr(connected_addr)] >>

\* C17: a heartbeat task that takes the shutdown branch returns
\* ClientCancelledHeartbeatTask if CancelHeartbeatTask was sent and ClientDropped
\* if the sender was dropped; before it returns it sends Shutdown for the book
\* address (if there is one) and nothing else; and the task never returns Ok
C17_ShutdownReported ==
    /\ [][(hb_pc' = "returned" /\ hb_pc # "returned"
                /\ (hb_pc = "shutdown_send" \/ shutdown_rx # "open"))
            => /\ hb_result' = (IF shutdown_rx = "CancelHeartbeatTask"
                                    THEN "ClientCancelledHeartbeatTask"
                                    ELSE "ClientDropped")
               /\ NewUpdates = HeartbeatOwes("Shutdown")]_vars
    /\ [](hb_result \in ShutdownErrors
            => /\ hb_pc = "returned"
               /\ shutdown_rx # "open"
               /\ HeartbeatUpdates = HeartbeatOwes("Shutdown"))
    /\ [](hb_pc = "returned" <=> hb_result # "none")
    /\ [](hb_result # "Ok")
    /\ [][hb_pc = "returned" => hb_result' = hb_result /\ hb_pc' = hb_pc]_vars

\* the sender was dropped while a heartbeat awaited its response: the task told
\* the address book and returned ClientDropped
C17_Witness ==
    /\ hb_result = "ClientDropped"
    /\ pings = 1
    /\ conn_updates # << >>
    /\ conn_updates[Len(conn_updates)] = [change |-> "Shutdown", by |-> "heartbeat",
                                           addr |-> ListenAddr]

\* the errors a heartbeat can fail with
HeartbeatErrors == {"ConnectionClosed", "SendError", "FlushError", "ResponseError", "Elapsed"}

\* this step, the run loop sees a heartbeat fail
HeartbeatFailure ==
    /\ shutdown_rx = "open"
    /\ hb_pc \in OneHeartbeat \cup {"interval"}
    /\ hb_pc' \in {"errored_send", "returned"}

\* C18 as claimed: a heartbeat that fails (its Ping cannot be queued or flushed,
\* its response is an error, or HEARTBEAT_INTERVAL elapses) makes the task send
\* exactly one Errored update for the book address, return that error, and
\* queue no further Ping
C18_ErroredThenError ==
    /\ [][HeartbeatFailure
            => /\ pings' = pings
               /\ hb_pc' = "returned"
                    => hb_result' \in HeartbeatErrors /\ NewUpdates = HeartbeatOwes("Errored")
               /\ hb_pc' = "errored_send"
                    => hb_err' \in HeartbeatErrors /\ NewUpdates = << >>]_vars
    /\ [][(hb_pc = "errored_send" /\ hb_pc' # hb_pc)
            => /\ hb_pc' = "returned"
               /\ hb_result' = hb_err
               /\ NewUpdates = HeartbeatOwes("Errored")]_vars

\* C18 amended: a heartbeat that fails makes the task send one Errored update
\* for the book address and return the error of the heartbeat, with no further
\* Ping; but while that update waits for room in the address-book channel the
\* task still listens to the shutdown signal, and a signal that comes then makes
\* it send Shutdown instead and return the shutdown error.  The task sends at
\* most one change in all
C18_ErroredUnlessShutdown ==
    /\ [][HeartbeatFailure
            => /\ pings' = pings
               /\ hb_pc' = "returned"
                    => /\ hb_result' \in HeartbeatErrors
                       /\ hb_pc = "interval" <=> hb_result' = "ConnectionClosed"
                       /\ NewUpdates = HeartbeatOwes("Errored")
               /\ hb_pc' = "errored_send"
                    => /\ hb_err' \in HeartbeatErrors
                       /\ NewUpdates = << >>
                       /\ get_address_book_addr(connected_addr) # NoAddr]_vars
    /\ [][(hb_pc = "errored_send" /\ hb_pc' # hb_pc)
            => \/ /\ shutdown_rx = "open"
                  /\ hb_pc' = "returned"
                  /\ hb_result' = hb_err
                  /\ NewUpdates = HeartbeatOwes("Errored")
               \/ /\ shutdown_rx # "open"
                  /\ hb_pc' \in {"shutdown_send", "returned"}
                  /\ hb_pc' = "returned"
                        => hb_result' \in ShutdownErrors
                            /\ NewUpdates = HeartbeatOwes("Shutdown")]_vars
    /\ [][(hb_pc \in {"errored_send", "shutdown_send", "returned"}) => pings' = pings]_vars
    /\ [](hb_result \in HeartbeatErrors => HeartbeatUpdates = HeartbeatOwes("Errored"))
    /\ [](Len(HeartbeatUpdates) <= 1)
    /\ [](hb_pc # "returned" => HeartbeatUpdates = << >>)

\* the response to the second Ping did not come in time: the task told the
\* address book and returned the timeout
C18_Witness ==
    /\ hb_result = "Elapsed"
    /\ pings = 2
    /\ HeartbeatUpdates = << [change |-> "Errored", by |-> "heartbeat", addr |-> ListenAddr] >>

----------------------------------------------------------------------------
(* Properties of the transaction verifier *)

\* the future of Verifier::call has resolved
Verified == v_pc = "done"

\* the errors of the steps that run before the match on the version
ErrorsBeforeDispatch ==
    {"LockedUntilAfterBlock", "NoInputs", "NoOutputs", "NotEnoughFlags",
     "CoinbaseInMempool", "CoinbaseHasJoinSplit", "CoinbaseHasSpend",
     "CoinbaseHasEnableSpendsOrchard", "NonCoinbaseHasCoinbaseInput",
     "CoinbaseExpiryBlockHeight", "MaximumExpiryHeight", "ExpiredTransaction",
     "BothVPubsNonZero", "DisabledAddToSproutPool", "DuplicateSpend",
     "KomodoTxLockTimeTooEarly", "KomodoMedianTimePastError", "KomodoTipTimeError",
     "BoxError", "BannedInput", "TransparentInputNotFound", "Elapsed",
     "KomodoDepositOrOpret"}

\* C19 as stated: for any V1, V2 or V3 transaction, in Block or Mempool
\* context and whatever its other contents, verification fails with
\* WrongVersion.
C19_WrongVersionAlways ==
    (Verified /\ req.transaction.version \in {1, 2, 3}) => v_result = "WrongVersion"

\* C19, amended: a V1, V2 or V3 transaction never verifies; the match on the
\* version, once reached, fails it with WrongVersion, the steps before the
\* match fail it with their own error, and no check is ever dispatched for
\* it.  WrongVersion is the error of these versions only.
C19_WrongVersionAtDispatch ==
    /\ [](req.transaction.version \in {1, 2, 3} =>
            /\ v_pc \notin {"async_checks", "miner_fee"}
            /\ async_checks = NoChecks
            /\ failed_checks = {}
            /\ Verified => v_result \in ErrorsBeforeDispatch \cup {"WrongVersion"})
    /\ [](v_result = "WrongVersion" => req.transaction.version \in {1, 2, 3})
    /\ [][(v_pc = "dispatch" /\ req.transaction.version \in {1, 2, 3})
            => v_result' = "WrongVersion"]_vars

\* a V3 transaction whose inputs were looked up in the state is refused for
\* its version
C19_Witness ==
    /\ Verified
    /\ req.transaction.version = 3
    /\ v_result = "WrongVersion"
    /\ spent_outputs # << >>
    /\ Len(state_requests) >= 3

\* C20 as stated: any coinbase transaction submitted as a Mempool request
\* fails with CoinbaseInMempool.
C20_CoinbaseInMempoolAlways ==
    (Verified /\ req.kind = "Mempool" /\ is_coinbase(req.transaction))
        => v_result = "CoinbaseInMempool"

\* C20, amended: a coinbase transaction submitted as a Mempool request fails
\* in the basic checks, before any request to the state: with NoOutputs when
\* it has no transparent or shielded output, with NotEnoughFlags when it has
\* Orchard actions and no Orchard flag, and with CoinbaseInMempool otherwise.
C20_CoinbaseInMempool ==
    (req.kind = "Mempool" /\ is_coinbase(req.transaction)) =>
        /\ v_pc \in {"basic_checks", "done"}
        /\ state_requests = << >>
        /\ Verified =>
            v_result =
                IF ~has_transparent_or_shielded_outputs(req.transaction) THEN "NoOutputs"
                ELSE IF ~Transaction_has_enough_orchard_flags(req.transaction)
                     THEN "NotEnoughFlags"
                ELSE "CoinbaseInMempool"

\* a coinbase with a JoinSplit, which the coinbase rules would refuse, is
\* refused for being in the mempool
C20_Witness ==
    /\ Verified
    /\ req.kind = "Mempool"
    /\ is_coinbase(req.transaction)
    /\ req.transaction.joinsplit_count > 0
    /\ v_result = "CoinbaseInMempool"

\* the steps of one verification, in the order of Verifier::call; the loop of
\* spent_utxos and its lookups are one step
StepOrder == <<{"basic_checks"}, {"interest_locktime"}, {"await_block"},
               {"median_time_past"}, {"last_block_time"}, {"last_block_time_query"},
               {"banned_inputs"}, {"spent_utxos", "utxo_query"}, {"deposit_and_opret"},
               {"dispatch"}, {"async_checks"}, {"miner_fee"}, {"done"}>>

StepRank(step) == CHOOSE i \in DOMAIN StepOrder : step \in StepOrder[i]

\* the errors of the basic checks, in the order of the checks
BasicErrors ==
    <<{"LockedUntilAfterBlock"}, {"NoInputs", "NoOutputs"}, {"NotEnoughFlags"},
      {"CoinbaseInMempool", "CoinbaseHasJoinSplit", "CoinbaseHasSpend",
       "CoinbaseHasEnableSpendsOrchard", "NonCoinbaseHasCoinbaseInput"},
      {"CoinbaseExpiryBlockHeight", "MaximumExpiryHeight", "ExpiredTransaction"},
      {"BothVPubsNonZero"}, {"DisabledAddToSproutPool"}, {"DuplicateSpend"}>>

\* the results each step may return
ResultsOf(step) ==
    CASE step = "basic_checks" -> UNION {BasicErrors[i] : i \in DOMAIN BasicErrors}
      [] step = "interest_locktime" -> {"KomodoTxLockTimeTooEarly"}
      [] step = "await_block" -> {"BoxError"}
      [] step = "median_time_past" ->
            {"KomodoTxLockTimeTooEarly", "KomodoMedianTimePastError", "BoxError"}
      [] step = "last_block_time_query" -> {"KomodoTipTimeError", "BoxError"}
      [] step = "banned_inputs" -> {"BannedInput"}
      [] step = "utxo_query" -> {"TransparentInputNotFound", "BoxError", "Elapsed"}
      [] step = "deposit_and_opret" -> {"KomodoDepositOrOpret"}
      [] step = "dispatch" ->
            {"WrongVersion", "UnsupportedByNetworkUpgrade", "MalformedGroth16"}
      [] step = "async_checks" -> {"CheckFailed"}
      [] step = "miner_fee" ->
            {"IncorrectFee", "KomodoLowFeeLimit", "KomodoAbsurdFee", "SigopCountError",
             "Response::Block", "Response::Mempool"}
      [] OTHER -> {}

\* what the checks that read the transaction's lists alone return, in order:
\* inputs and outputs, Orchard flags, the coinbase rules
ListChecks(r) ==
    <<has_inputs_and_outputs(r.transaction), has_enough_orchard_flags(r.transaction),
      CoinbaseRules(r)>>

\* the basic check that returned `error`, by its place in the order
BasicRank(error) == CHOOSE i \in DOMAIN BasicErrors : error \in BasicErrors[i]

UtxosResolved == v_pc \in {"deposit_and_opret", "dispatch", "async_checks", "miner_fee"}

\* the map part of the claim: the keys are the outpoints of the PrevOut inputs,
\* each mapped to the UTXO resolved for it (from known_utxos when the request
\* knows the outpoint, else from the answer to the state request that names it)
MapOfPrevOuts ==
    /\ DOMAIN spent_utxos = PrevOuts(req.transaction)
    /\ \A i \in DOMAIN spent_utxos :
          IF req.kind = "Block" /\ i \in req.known_utxos
          THEN spent_utxos[i] = "known_utxos"
          ELSE /\ spent_utxos[i] = "state"
               /\ \E k \in DOMAIN state_requests :
                     /\ state_requests[k].input = i
                     /\ state_requests[k].type \in {"AwaitUtxo", "UnspentBestChainUtxo"}

\* C22 as stated: the returned vector has the output spent by the i-th input at
\* position i, for every input position, and the map is that of the PrevOut inputs.
C22_EveryInputPosition ==
    UtxosResolved =>
        /\ DOMAIN spent_outputs = DOMAIN req.transaction.inputs
        /\ \A i \in DOMAIN req.transaction.inputs : spent_outputs[i] = i
        /\ MapOfPrevOuts

\* C22, amended: the returned vector holds the outputs spent by the PrevOut
\* inputs, in input order, and a Coinbase input contributes no element; so the
\* vector of a coinbase transaction is empty, and for every other transaction
\* that reaches the resolution its i-th element is the output spent by the i-th
\* input. The map is keyed by exactly the outpoints of the PrevOut inputs, each
\* mapped to the UTXO resolved for it.
C22_PrevOutPositions ==
    UtxosResolved =>
        /\ Len(spent_outputs) = Cardinality(PrevOuts(req.transaction))
        /\ \A i \in DOMAIN spent_outputs : spent_outputs[i] \in PrevOuts(req.transaction)
        /\ \A i, j \in DOMAIN spent_outputs : i < j => spent_outputs[i] < spent_outputs[j]
        /\ is_coinbase(req.transaction) => spent_outputs = << >>
        /\ ~is_coinbase(req.transaction) =>
              /\ DOMAIN spent_outputs = DOMAIN req.transaction.inputs
              /\ \A i \in DOMAIN req.transaction.inputs : spent_outputs[i] = i
        /\ MapOfPrevOuts

\* two inputs were resolved, one from known_utxos and one from the state
C22_Witness ==
    /\ UtxosResolved
    /\ Len(spent_outputs) = 2
    /\ \E i, j \in DOMAIN spent_utxos :
          spent_utxos[i] = "known_utxos" /\ spent_utxos[j] = "state"

(* C23: how spent_utxos resolves each PrevOut input *)

\* the state request at position k is a UTXO lookup
IsLookup(k) == state_requests[k].type \in {"AwaitUtxo", "UnspentBestChainUtxo"}

\* the outpoints known_utxos holds
KnownOf(r) == IF r.kind = "Block" THEN r.known_utxos ELSE {}

\* the PrevOut inputs the loop is done with
Passed == {i \in PrevOuts(req.transaction) : i < input_index}

\* C23: for each PrevOut input in input order, an outpoint in known_utxos is
\* resolved from it without a state request; otherwise a Mempool request issues
\* UnspentBestChainUtxo and fails with TransparentInputNotFound on None, and a
\* Block request issues AwaitUtxo, which ends within the 6-minute timeout;
\* lookups are issued one at a time, and the first failure ends the resolution
\* with no further lookup.
C23_Lookups ==
    /\ [](\A k \in DOMAIN state_requests : IsLookup(k) =>
            /\ state_requests[k].input \in PrevOuts(req.transaction) \ KnownOf(req)
            /\ state_requests[k].type =
                  IF req.kind = "Mempool" THEN "UnspentBestChainUtxo" ELSE "AwaitUtxo"
            /\ \A l \in DOMAIN state_requests :
                  IsLookup(l) /\ k < l => state_requests[k].input < state_requests[l].input)
    /\ [](\A i \in Passed :
            /\ i \in DOMAIN spent_utxos
            /\ i \in KnownOf(req) <=> spent_utxos[i] = "known_utxos"
            /\ i \notin KnownOf(req) <=>
                  \E k \in DOMAIN state_requests : IsLookup(k) /\ state_requests[k].input = i)
    /\ [](v_result = "TransparentInputNotFound" =>
            /\ req.kind = "Mempool"
            /\ state_requests[Len(state_requests)] =
                  StateRequest("UnspentBestChainUtxo", input_index))
    /\ [](lookup_elapsed <= 6 * 60)
    /\ [][v_pc = "utxo_query" /\ lookup_elapsed = 6 * 60 =>
            v_pc' = "done" /\ v_result' = "Elapsed"]_vars
    /\ [][(\E k \in DOMAIN state_requests' : k \notin DOMAIN state_requests /\ IsLookup(k)') =>
            /\ v_pc = "spent_utxos" /\ v_pc' = "utxo_query"
            /\ state_requests' = Append(state_requests, state_requests'[Len(state_requests')])]_vars
    /\ [](v_pc = "utxo_query" <=>
            /\ state_requests # << >>
            /\ IsLookup(Len(state_requests))
            /\ state_requests[Len(state_requests)].input = input_index
            /\ input_index \notin DOMAIN spent_utxos
            /\ v_result = "none")
    /\ [][v_result' \in {"TransparentInputNotFound", "BoxError", "Elapsed"} /\ v_pc = "utxo_query" =>
            /\ v_pc' = "done"
            /\ UNCHANGED <<state_requests, spent_outputs, spent_utxos, input_index>>]_vars
    /\ [][v_pc = "done" => UNCHANGED state_requests]_vars

\* a Block request took its first outpoint from known_utxos and waited the
\* whole timeout for the second
C23_Witness ==
    /\ req.kind = "Block"
    /\ v_result = "Elapsed"
    /\ spent_utxos = insert(<< >>, 1, "known_utxos")
    /\ state_requests[Len(state_requests)] = StateRequest("AwaitUtxo", 2)

(* C24: the checks the verifier dispatches *)

\* the checks were dispatched: the match on the version returned them
ChecksDispatched ==
    \/ v_pc \in {"async_checks", "miner_fee"}
    \/ v_result \in ResultsOf("async_checks") \cup ResultsOf("miner_fee")

\* one when the data is present
OneIf(present) == IF present THEN 1 ELSE 0

\* the number of checks of each kind the claim lists for a transaction
ListedChecks(tx) ==
    [k \in CheckKinds |->
        CASE k = "script" -> IF is_coinbase(tx) THEN 0 ELSE Len(tx.inputs)
          [] k = "groth16_joinsplit" -> tx.joinsplit_count
          [] k = "ed25519" -> OneIf(tx.joinsplit_count > 0)
          [] k = "groth16_spend" -> tx.sapling_spends
          [] k = "redjubjub_spend_auth" -> tx.sapling_spends
          [] k = "groth16_output" -> tx.sapling_outputs
          [] k = "redjubjub_binding" -> OneIf(tx.sapling_spends + tx.sapling_outputs > 0)
          [] k = "halo2" -> OneIf(tx.version = 5 /\ tx.orchard_actions > 0)
          [] k = "redpallas_spend_auth" -> IF tx.version = 5 THEN tx.orchard_actions ELSE 0
          [] k = "redpallas_binding" -> OneIf(tx.version = 5 /\ tx.orchard_actions > 0)]

\* C24: the verifier returns a Response only if every check it dispatched
\* returned Ok, and the checks it dispatches are: a script check per transparent
\* input of a non-coinbase transaction; a Groth16 check per JoinSplit and one
\* Ed25519 check when there are JoinSplits; a Groth16 and a RedJubjub spend-auth
\* check per Sapling spend, a Groth16 check per Sapling output and one RedJubjub
\* binding check when there is Sapling data; for V5 one Halo2 check, a RedPallas
\* spend-auth check per Orchard action and one RedPallas binding check when
\* there is Orchard data.
C24_ChecksDispatched ==
    /\ ChecksDispatched => async_checks = ListedChecks(req.transaction)
    /\ ~ChecksDispatched => async_checks = NoChecks /\ failed_checks = {}
    /\ v_result \in {"Response::Block", "Response::Mempool"} =>
          ChecksDispatched /\ failed_checks = {}
    /\ failed_checks # {} =>
          /\ v_result = "CheckFailed"
          /\ \A k \in failed_checks : async_checks[k] > 0

\* a transaction with two inputs and two Sapling spends was admitted to the mempool
C24_Witness ==
    /\ v_result = "Response::Mempool"
    /\ async_checks["script"] = 2
    /\ async_checks["groth16_spend"] = 2
    /\ async_checks["redjubjub_spend_auth"] = 2
    /\ async_checks["redjubjub_binding"] = 1

(* C25: AsyncChecks built as a.and(b) *)

\* the futures that completed with the output
CompletedWith(output) ==
    {completed[i].future : i \in {j \in DOMAIN completed : completed[j].output = output}}

\* the first future to complete with an error
FirstFailed ==
    completed[CHOOSE i \in DOMAIN completed :
                /\ completed[i].output = "Err"
                /\ \A j \in 1..(i - 1) : completed[j].output = "Ok"].future

\* C25: for AsyncChecks built as a.and(b), check returns Ok iff every future of
\* a and of b completed with Ok, and an error iff some future failed; the error
\* is that of the first future to complete with an error, whatever the order of
\* completion, and the remaining futures are dropped and never polled again; an
\* empty set returns Ok.
C25_CheckOfAnd ==
    /\ [][ac_pc = "building" /\ ac_pc' = "checking" =>
            checks_a' = checks_a \cup checks_b]_vars
    /\ [](ac_pc = "returned" =>
            /\ check_result = <<"Ok">> <=> CompletedWith("Ok") = checks_a
            /\ check_result # <<"Ok">> <=> CompletedWith("Err") # {}
            /\ check_result # <<"Ok">> => check_result = <<"Err", FirstFailed>>
            /\ checks_a = {} => check_result = <<"Ok">>)
    /\ [](ac_pc # "returned" => check_result = "none" /\ CompletedWith("Err") = {})
    /\ [][ac_pc = "returned" => UNCHANGED <<completed, check_result>>]_vars

\* a future of `b` failed after a future of `a` completed with Ok, and two
\* futures were dropped
C25_Witness ==
    /\ ac_pc = "returned"
    /\ Len(completed) = 2
    /\ completed[1].future.of = "a"
    /\ check_result = <<"Err", Future("b", 2)>>
    /\ Cardinality(Pending) = 2

(* C26: is_final_tx_komodo *)

\* the block's height for a height lock, its time for a time lock
BlockValue(in) ==
    IF in.tx.lock_time.kind = "Height" THEN in.block_height ELSE in.block_time

\* the Komodo exception of the claim
KomodoException(in) ==
    LET active == in.block_height - 1 \in Nat /\ in.hf IN
    \/ ~active /\ in.tx.lock_time.value > BlockValue(in)
    \/ active /\ in.tx.lock_time.value <= BlockValue(in)

\* the transaction is final in the words of the claim
FinalAsClaimed(in) ==
    \/ in.tx.lock_time.value = 0
    \/ in.tx.lock_time.kind = "Height" /\ in.tx.lock_time.value < in.block_height
    \/ in.tx.lock_time.kind = "Time" /\ in.tx.lock_time.value < in.block_time
    \/ \A i \in DOMAIN in.tx.sequences :
          \/ in.tx.sequences[i] = 0
          \/ in.tx.sequences[i] = 1 /\ KomodoException(in)

\* C26: is_final_tx_komodo returns Ok iff lock_time is 0, or is a height below
\* block_height or a time before block_time, or every input has sequence
\* 0xFFFFFFFF or has 0xFFFFFFFE and meets the Komodo exception; otherwise it
\* fails with LockedUntilAfterBlockHeight for a height lock and with
\* LockedUntilAfterBlockTime for a time lock.
C26_FinalIff ==
    fn_input.fn = "is_final_tx_komodo" /\ fn_output # "none" =>
        /\ fn_output = "Ok" <=> FinalAsClaimed(fn_input)
        /\ fn_output # "Ok" =>
              fn_output = IF fn_input.tx.lock_time.kind = "Height"
                          THEN "LockedUntilAfterBlockHeight"
                          ELSE "LockedUntilAfterBlockTime"

\* a time lock equal to the block time, an input with 0xFFFFFFFE and the
\* hardfork active: final by the exception alone
C26_Witness ==
    /\ fn_input.fn = "is_final_tx_komodo"
    /\ fn_output = "Ok"
    /\ fn_input.tx.lock_time = [kind |-> "Time", value |-> fn_input.block_time]
    /\ fn_input.hf /\ fn_input.block_height > 0
    /\ fn_input.tx.sequences = <<1, 0>>

(* C27: the interest lock-time check *)

\* cmp_time in the words of the claim
ClaimedCmpTime(in) ==
    CASE in.kind = "Mempool" -> in.mtp_none + 777
      [] in.kind = "Block" /\ in.gap_allowed -> in.mtp_previous + 777
      [] OTHER -> in.time

\* the bound of the claim
ClaimedBound(in) ==
    ClaimedCmpTime(in) - KOMODO_MAXMEMPOOLTIME - (IF in.adjust_active THEN 16000 ELSE 0)

\* C27: the interest lock-time check fails with KomodoTxLockTimeTooEarly iff
\* the interest-validation rule is active at the request's height, the lock
\* time is a time, and it is before cmp_time - KOMODO_MAXMEMPOOLTIME (less
\* 16000 s when the adjustment rule is active), cmp_time being
\* GetMedianTimePast(None) + 777 s for a Mempool request and, for a Block
\* request, the block time, or GetMedianTimePast(previous_hash) + 777 s when
\* the gap-after-second-block rule is active; a lock time equal to the bound
\* and a height lock are accepted.
C27_TooEarlyIff ==
    fn_input.fn = "interest_locktime" /\ fn_output # "none" =>
        /\ fn_output \in {"Ok", "KomodoTxLockTimeTooEarly"}
        /\ fn_output = "KomodoTxLockTimeTooEarly" <=>
              /\ fn_input.validate_active
              /\ fn_input.lock_time.kind = "Time"
              /\ fn_input.lock_time.value < ClaimedBound(fn_input)
        /\ fn_input.lock_time.value = ClaimedBound(fn_input) => fn_output = "Ok"
        /\ fn_input.lock_time.kind = "Height" => fn_output = "Ok"

\* a Block request under the gap and adjustment rules has a lock time one
\* second before the bound
C27_Witness ==
    /\ fn_input.fn = "interest_locktime"
    /\ fn_output = "KomodoTxLockTimeTooEarly"
    /\ fn_input.kind = "Block" /\ fn_input.gap_allowed /\ fn_input.adjust_active
    /\ fn_input.lock_time.value = fn_input.mtp_previous + 777 - 16000 - KOMODO_MAXMEMPOOLTIME - 1

(* C28: when the fee-rate limiter is consulted *)

\* the request takes the low-fee path, in the words of the claim: a Mempool
\* request with check_low_fee whose fee is below min_relay_fee x size
LowFeeRequest ==
    /\ req.kind = "Mempool"
    /\ req.check_low_fee
    /\ req.amounts.fee < (min_relay_txfee * req.amounts.size) \div 1000

\* the verification passed every step before the fee checks
PassedEarlierSteps ==
    /\ v_pc = "miner_fee"
    /\ v_result = "none"
    /\ ChecksDispatched /\ failed_checks = {}
    /\ PrevOuts(req.transaction) = DOMAIN spent_utxos

\* the results of the steps before the fee checks, and of the fee computation
EarlierErrors ==
    UNION {ResultsOf(step) : step \in {"basic_checks", "interest_locktime", "await_block",
                "median_time_past", "last_block_time_query", "banned_inputs", "utxo_query",
                "deposit_and_opret", "dispatch", "async_checks"}} \cup {"IncorrectFee"}

\* C28: the limiter is consulted, and a token may be consumed, only for a
\* Mempool request with check_low_fee whose fee is strictly below
\* min_relay_fee x size and that passed every earlier step; a fee equal to the
\* floor, check_low_fee = false, a Block request and a transaction that failed
\* an earlier step leave the limiter unchanged; a consulted limiter that denies
\* makes the verification fail with KomodoLowFeeLimit.
C28_LimiterConsulted ==
    /\ [][rate_limiter' # rate_limiter =>
            /\ LowFeeRequest
            /\ PassedEarlierSteps
            /\ rate_limiter'.calls = rate_limiter.calls + 1]_vars
    /\ [][(~LowFeeRequest \/ v_result' \in EarlierErrors) => rate_limiter' = rate_limiter]_vars
    /\ [](v_result \in EarlierErrors \/ ~LowFeeRequest => rate_limiter.calls = 0)
    /\ [][/\ rate_limiter'.calls > rate_limiter.calls
          /\ rate_limiter'.admitted = rate_limiter.admitted
          => v_result' = "KomodoLowFeeLimit"]_vars
    /\ [](v_result = "KomodoLowFeeLimit" =>
            rate_limiter.calls = 1 /\ rate_limiter.admitted = 0)

\* a low-fee transaction was admitted to the mempool for a token
C28_Witness ==
    /\ v_result = "Response::Mempool"
    /\ LowFeeRequest
    /\ rate_limiter.admitted = 1
    /\ rate_limiter.tokens = 0

(* C30: the absurd fee *)

\* the fee is absurd in the words of the claim: above 10_000 x (min_relay_fee x
\* size) and above output_value / 19, the quotient taken exactly
AbsurdAsClaimed(r) ==
    /\ r.reject_absurd_fee
    /\ r.amounts.fee > 10000 * ((min_relay_txfee * r.amounts.size) \div 1000)
    /\ 19 * r.amounts.fee > r.amounts.output_value

\* KomodoAbsurdFee is not returned for a Block request, nor without reject_absurd_fee
NeverAbsurd ==
    (req.kind = "Block" \/ ~req.reject_absurd_fee) => v_result # "KomodoAbsurdFee"

\* C30 as stated: a Mempool request fails with KomodoAbsurdFee iff
\* reject_absurd_fee is set and its fee is absurd.
C30_AbsurdIff ==
    /\ req.kind = "Mempool" /\ v_pc = "done" =>
          (v_result = "KomodoAbsurdFee" <=> AbsurdAsClaimed(req))
    /\ NeverAbsurd

\* C30, amended: a Mempool request that passed every earlier step, the fee
\* computation and the low-fee check included, fails with KomodoAbsurdFee iff
\* reject_absurd_fee is set and the fee is strictly greater than both
\* 10_000 x (min_relay_fee x size) and output_value / 19; a request that failed
\* an earlier step fails with the error of that step; with reject_absurd_fee =
\* false, and for every Block request, KomodoAbsurdFee is never returned.
C30_AbsurdIffReached ==
    /\ req.kind = "Mempool" /\ v_pc = "done" =>
          IF v_result \in EarlierErrors \cup {"KomodoLowFeeLimit"}
          THEN rate_limiter.admitted = 0
          ELSE /\ v_result = "KomodoAbsurdFee" <=> AbsurdAsClaimed(req)
               /\ v_result # "KomodoAbsurdFee" => v_result = "Response::Mempool"
    /\ NeverAbsurd

\* a fee just above both bounds was refused
C30_Witness ==
    /\ v_result = "KomodoAbsurdFee"
    /\ req.amounts.fee = 2500001
    /\ req.amounts.output_value = 47500018

(* C29: concurrent invocations at one fee-rate limiter *)

\* the invocations between Mutex::lock and the drop of the guard
InSection == {i \in Callers : callers[i].pc \in {"locked", "refilled", "read", "decided"}}

\* the invocations check_rate_limit answered with the result
Answered(answer) == {i \in Callers : callers[i].result = answer}

\* C29: under any interleaving of concurrent invocations that share one
\* limiter, each low-fee admission consumes exactly one token and a denial
\* none, the tokens never drop below zero nor exceed the capacity, a request is
\* denied exactly when fewer than one token is available after the refill, and
\* the lock of the limiter is never held across an await point.
C29_SharedLimiter ==
    /\ [][rate_limiter'.admitted # rate_limiter.admitted =>
            /\ rate_limiter'.admitted = rate_limiter.admitted + 1
            /\ rate_limiter'.tokens = rate_limiter.tokens - TokenParts]_vars
    /\ [][/\ rate_limiter'.calls # rate_limiter.calls
          /\ rate_limiter'.admitted = rate_limiter.admitted
          => rate_limiter'.tokens = rate_limiter.tokens]_vars
    /\ [][rate_limiter'.calls # rate_limiter.calls =>
            (rate_limiter'.admitted = rate_limiter.admitted
                <=> rate_limiter.tokens < TokenParts)]_vars
    /\ [](rate_limiter.tokens \in 0..(LimiterCapacity * TokenParts))
    /\ [](/\ Cardinality(Answered("Ok")) = rate_limiter.admitted
          /\ Cardinality(Answered("KomodoLowFeeLimit")) =
                rate_limiter.calls - rate_limiter.admitted)
    /\ [](\E t \in 0..(LimiterCapacity * TokenParts) :
            rate_limiter.tokens = t + rate_limiter.refilled - TokenParts * rate_limiter.admitted)
    /\ [](\A i \in Callers : callers[i].pc \in {"awaiting", "done"} => holder # i)
    /\ [](Cardinality(InSection) <= 1 /\ (holder = 0 <=> InSection = {}))

\* one invocation was admitted for the last token and the other, which came
\* within the same second, was denied
C29_Witness ==
    /\ \A i \in Callers : callers[i].pc = "done"
    /\ Answered("Ok") # {} /\ Answered("KomodoLowFeeLimit") # {}
    /\ rate_limiter.admitted = 1
    /\ rate_limiter.calls = Cardinality(Callers)

(* C31: the absurd fee of the scenario *)

\* the request of the scenario: a Mempool request with reject_absurd_fee for a
\* V4 transaction of 250 bytes whose transparent outputs sum to 1_000_000, at
\* a minimum relay fee of 1_000 per 1000 bytes
AbsurdFeeScenario(fee) ==
    /\ req.kind = "Mempool"
    /\ req.transaction.version = 4
    /\ req.reject_absurd_fee
    /\ req.amounts = [fee |-> fee, size |-> 250, output_value |-> 1000000]
    /\ min_relay_txfee = 1000

\* the verification ended in the absurd-fee check or after it
FeeChecksDecided ==
    /\ v_pc = "done"
    /\ v_result \notin EarlierErrors \cup {"KomodoLowFeeLimit"}

\* C31 as stated: the transaction of the scenario with a fee of 300_000 fails
\* with KomodoAbsurdFee.
C31_AbsurdFeeScenario ==
    (AbsurdFeeScenario(300000) /\ FeeChecksDecided) => v_result = "KomodoAbsurdFee"

\* C31, amended: the transaction of the scenario with a fee of 300_000 never
\* fails with KomodoAbsurdFee, since 300_000 does not exceed 10_000 x 250 =
\* 2_500_000, and is admitted when nothing else fails; the same transaction
\* with a fee of 2_500_001 fails with KomodoAbsurdFee, and with a fee of
\* 2_500_000 it does not.
C31_AbsurdFeeAbove ==
    /\ AbsurdFeeScenario(300000) => v_result # "KomodoAbsurdFee"
    /\ (AbsurdFeeScenario(300000) /\ FeeChecksDecided) => v_result = "Response::Mempool"
    /\ (AbsurdFeeScenario(2500000) /\ FeeChecksDecided) => v_result = "Response::Mempool"
    /\ (AbsurdFeeScenario(2500001) /\ FeeChecksDecided) => v_result = "KomodoAbsurdFee"

\* the transaction of the scenario was admitted to the mempool with its fee of
\* 300_000
C31_Witness ==
    /\ AbsurdFeeScenario(300000)
    /\ v_result = "Response::Mempool"
    /\ rate_limiter.calls = 0

(* C32: spend conflicts *)

\* two items of the list are equal
Repeats(items) == \E i, j \in DOMAIN items : i # j /\ items[i] = items[j]

\* the error of the claim for what the transaction spends: that of the first
\* of transparent, Sprout, Sapling, Orchard with a repeat
ClaimedConflict(spends) ==
    IF Repeats(spends.transparent) THEN "DuplicateTransparentSpend"
    ELSE IF Repeats(spends.sprout) THEN "DuplicateSproutNullifier"
    ELSE IF Repeats(spends.sapling) THEN "DuplicateSaplingNullifier"
    ELSE IF Repeats(spends.orchard) THEN "DuplicateOrchardNullifier"
    ELSE "Ok"

\* C32: spend_conflicts returns Ok if and only if no transparent outpoint
\* repeats and no nullifier repeats within its own pool; equal bit patterns in
\* two different pools are no conflict; when several kinds repeat, the error
\* is that of the first of transparent, Sprout, Sapling, Orchard.
C32_SpendConflicts ==
    (fn_input.fn = "spend_conflicts" /\ fn_output # "none") =>
        /\ fn_output = "Ok" <=>
              /\ ~Repeats(fn_input.spends.transparent)
              /\ ~Repeats(fn_input.spends.sprout)
              /\ ~Repeats(fn_input.spends.sapling)
              /\ ~Repeats(fn_input.spends.orchard)
        /\ fn_output = ClaimedConflict(fn_input.spends)

\* one bit pattern is a nullifier of each pool and an outpoint, none repeats
\* within its pool, and the check passed
C32_Witness ==
    /\ fn_input.fn = "spend_conflicts"
    /\ fn_output = "Ok"
    /\ fn_input.spends.transparent = << "aa", "bb" >>
    /\ fn_input.spends.sprout = << "aa" >>
    /\ fn_input.spends.sapling = << "aa" >>
    /\ fn_input.spends.orchard = << "bb", "aa" >>

(* C33: the expiry height of a transaction that is no coinbase *)

\* non_coinbase_expiry_height returned for an overwintered transaction
ExpiryChecked ==
    /\ fn_input.fn = "non_coinbase_expiry_height"
    /\ fn_output # "none"
    /\ fn_input.tx.overwintered

\* C33: for an overwintered transaction that is no coinbase,
\* non_coinbase_expiry_height fails with MaximumExpiryHeight iff the expiry
\* height exceeds 499_999_999, otherwise with ExpiredTransaction iff the expiry
\* is nonzero and below the block height, and otherwise returns Ok.
C33_ExpiryHeight ==
    ExpiryChecked =>
        LET expiry == fn_input.tx.n_expiry_height
            block_height == fn_input.block_height
        IN  /\ fn_output = "MaximumExpiryHeight" <=> expiry > 499999999
            /\ fn_output = "ExpiredTransaction" <=>
                  (expiry <= 499999999 /\ expiry # 0 /\ expiry < block_height)
            /\ fn_output = "Ok" <=>
                  (expiry <= 499999999 /\ (expiry = 0 \/ expiry >= block_height))

\* an expiry of Height::MAX_EXPIRY_HEIGHT at that block height was accepted
C33_Witness ==
    /\ ExpiryChecked
    /\ fn_input.tx.n_expiry_height = 499999999
    /\ fn_input.block_height = 499999999
    /\ fn_output = "Ok"

(* C34: the network upgrade of V4 and V5 transactions *)

\* the network upgrade at the height of the request does not support the
\* version of the transaction, in the words of the claim
UnsupportedAsClaimed ==
    \/ /\ req.transaction.version = 4
       /\ req.upgrade \in {"Genesis", "BeforeOverwinter", "Overwinter"}
    \/ /\ req.transaction.version = 5
       /\ req.upgrade # "Nu5"

\* C34 as stated: a V4 or V5 transaction is rejected with
\* UnsupportedByNetworkUpgrade if and only if the network upgrade does not
\* support its version, and then no check is dispatched.
C34_UnsupportedIff ==
    (Verified /\ req.transaction.version \in {4, 5}) =>
        /\ v_result = "UnsupportedByNetworkUpgrade" <=> UnsupportedAsClaimed
        /\ v_result = "UnsupportedByNetworkUpgrade" => async_checks = NoChecks

\* C34, amended: a V4 or V5 transaction that passed every step before the
\* match on the version is rejected with UnsupportedByNetworkUpgrade if and
\* only if the network upgrade at the request height is earlier than Sapling
\* (V4) or is not Nu5 (V5); a transaction at such an upgrade that fails an
\* earlier step fails with the error of that step; in both cases no script or
\* cryptographic check is dispatched, and nothing else is rejected with
\* UnsupportedByNetworkUpgrade.
C34_UnsupportedAtDispatch ==
    /\ [][(v_pc = "dispatch" /\ req.transaction.version \in {4, 5}) =>
            (v_result' = "UnsupportedByNetworkUpgrade" <=> UnsupportedAsClaimed)]_vars
    /\ [](v_result = "UnsupportedByNetworkUpgrade" =>
            /\ req.transaction.version \in {4, 5}
            /\ UnsupportedAsClaimed)
    /\ [](UnsupportedAsClaimed =>
            /\ v_pc \notin {"async_checks", "miner_fee"}
            /\ async_checks = NoChecks
            /\ failed_checks = {}
            /\ Verified => v_result \in ErrorsBeforeDispatch \cup {"UnsupportedByNetworkUpgrade"})

\* a V4 transaction at Overwinter and a V5 transaction at Canopy, their inputs
\* found in the state, were rejected for the network upgrade
C34_Witness ==
    /\ Verified
    /\ v_result = "UnsupportedByNetworkUpgrade"
    /\ \/ req.transaction.version = 4 /\ req.upgrade = "Overwinter"
       \/ req.transaction.version = 5 /\ req.upgrade = "Canopy"
    /\ spent_outputs # << >>
    /\ async_checks = NoChecks

(* C35: the current and the next network upgrade *)

\* the upgrades listed at the height
ListedAt(network, height) ==
    {network[i].upgrade : i \in {i \in DOMAIN network : network[i].height = height}}

\* the upgrades with the largest activation height at or below the height
LargestAtOrBelow(network, height) ==
    UNION {ListedAt(network, k) : k \in {k \in HeightsOf(network) :
                /\ k <= height
                /\ \A l \in HeightsOf(network) : l <= height => l <= k}}

\* the upgrades with the smallest activation height above the height
SmallestAbove(network, height) ==
    UNION {ListedAt(network, k) : k \in {k \in HeightsOf(network) :
                /\ k > height
                /\ \A l \in HeightsOf(network) : l > height => k <= l}}

\* the one of the upgrades the network lists last
ListedLast(network, upgrades) ==
    network[CHOOSE i \in DOMAIN network :
                /\ network[i].upgrade \in upgrades
                /\ \A j \in DOMAIN network : network[j].upgrade \in upgrades => j <= i].upgrade

\* the values of the claim at the heights 0, 1 and MAX
CurrentAtExtremes ==
    (fn_input.fn = "current" /\ fn_output # "none") =>
        /\ fn_input.height = 0 => fn_output = "Genesis"
        /\ fn_input.height = 1 => fn_output = "BeforeOverwinter"
        /\ fn_input.height = 2147483647 => fn_output # "Genesis"

NextAtExtremes ==
    (fn_input.fn = "next" /\ fn_output # "none") =>
        /\ fn_input.height = 0 => fn_output = "BeforeOverwinter"
        /\ fn_input.height = 1 => fn_output = "Sapling"
        /\ fn_input.height = 2147483647 => fn_output = "None"

\* C35 as stated: current returns the unique upgrade with the largest
\* activation height <= h, next the unique upgrade with the smallest
\* activation height > h or None, with the values at 0, 1 and MAX.
C35_UniqueUpgrade ==
    /\ (fn_input.fn = "current" /\ fn_output # "none") =>
            LargestAtOrBelow(fn_input.network, fn_input.height) = {fn_output}
    /\ (fn_input.fn = "next" /\ fn_output # "none") =>
            SmallestAbove(fn_input.network, fn_input.height) =
                IF fn_output = "None" THEN {} ELSE {fn_output}
    /\ CurrentAtExtremes
    /\ NextAtExtremes

\* C35, amended: current returns an upgrade with the largest activation
\* height <= h, and next an upgrade with the smallest activation height > h
\* or None if there is none; where several upgrades share that height (as
\* Overwinter and Sapling do) it is the one listed last, Sapling of the two;
\* current(N, 0) = Genesis, next(N, 0) = BeforeOverwinter, current(N, 1) =
\* BeforeOverwinter, next(N, 1) = Sapling, current(N, MAX) is not Genesis and
\* next(N, MAX) = None.
C35_LastListedUpgrade ==
    /\ (fn_input.fn = "current" /\ fn_output # "none") =>
            LET largest == LargestAtOrBelow(fn_input.network, fn_input.height)
            IN  /\ fn_output \in largest
                /\ fn_output = ListedLast(fn_input.network, largest)
                /\ "Overwinter" \in largest => fn_output = "Sapling"
    /\ (fn_input.fn = "next" /\ fn_output # "none") =>
            LET smallest == SmallestAbove(fn_input.network, fn_input.height)
            IN  /\ fn_output = "None" <=> smallest = {}
                /\ smallest # {} => fn_output = ListedLast(fn_input.network, smallest)
                /\ "Overwinter" \in smallest => fn_output = "Sapling"
    /\ CurrentAtExtremes
    /\ NextAtExtremes

\* the upgrade after BeforeOverwinter was Sapling, at the height it shares
\* with Overwinter
C35_Witness ==
    /\ fn_input.fn = "next"
    /\ fn_input.height = 1
    /\ fn_output = "Sapling"
    /\ SmallestAbove(fn_input.network, 1) = {"Overwinter", "Sapling"}

(* C36: activation heights and upgrades *)

\* the upgrades with a finite activation height on the network
FiniteUpgrades(network) ==
    {u \in NetworkUpgrade :
        /\ activation_height(network, u).some
        /\ activation_height(network, u).height < Height_MAX}

\* the pairs of distinct upgrades with one finite activation height
SharedHeights(network) ==
    {pair \in SUBSET FiniteUpgrades(network) :
        /\ Cardinality(pair) = 2
        /\ \A u, v \in pair : activation_height(network, u) = activation_height(network, v)}

\* current was asked at the activation height of an upgrade that has a finite one
AskedAtActivation ==
    /\ fn_input.fn = "current_at_activation"
    /\ fn_output # "none"
    /\ fn_input.upgrade \in FiniteUpgrades(fn_input.network)

\* C36 as stated: no two distinct upgrades share a finite activation height,
\* and the activation list maps heights to upgrades one-to-one: at the
\* activation height of an upgrade it holds that upgrade.
C36_Injective ==
    /\ fn_input.fn \in {"current", "next", "current_at_activation"} =>
            SharedHeights(fn_input.network) = {}
    /\ AskedAtActivation => fn_output = fn_input.upgrade

\* C36, amended: Overwinter and Sapling share one finite activation height,
\* and no other two distinct upgrades share a finite one; the activation
\* list maps heights to upgrades one-to-one once Overwinter is left out: at
\* the height the two share it holds Sapling, at the finite activation height
\* of any other upgrade it holds that upgrade.
C36_InjectiveButOverwinter ==
    /\ fn_input.fn \in {"current", "next", "current_at_activation"} =>
            SharedHeights(fn_input.network) = {{"Overwinter", "Sapling"}}
    /\ AskedAtActivation =>
            fn_output = IF fn_input.upgrade = "Overwinter" THEN "Sapling"
                        ELSE fn_input.upgrade

\* the upgrade at the activation height of Overwinter was Sapling
C36_Witness ==
    /\ AskedAtActivation
    /\ fn_input.upgrade = "Overwinter"
    /\ fn_output = "Sapling"

(* C37: the two handshakes of a self-connection *)

\* both handshakes have ended
BothEnded == \A h \in Handshakes : result[h] # "none"

\* C37 as stated: in the self-connection scenario, whatever the interleaving,
\* at least one of the two handshakes fails with NonceReuse and neither
\* returns a Client.
C37_OneNonceReuse ==
    selfConn =>
        /\ \A h \in Handshakes : result[h] # "Client"
        /\ BothEnded => \E h \in Handshakes : result[h] = "NonceReuse"

\* C37, amended: in the self-connection scenario neither handshake returns a
\* Client; the first handshake that reaches the nonce check fails with
\* NonceReuse, so at least one of the two does unless both end before any
\* nonce check, with a timeout, an I/O error or a closed connection; and at
\* most one of the two fails with NonceReuse.
C37_FirstCheckNonceReuse ==
    /\ [](selfConn => \A h \in Handshakes : result[h] # "Client" /\ ~spawned[h])
    /\ [][\A h \in Handshakes :
            (/\ selfConn
             /\ ChecksNonce(h)
             /\ \A g \in Handshakes : result[g] # "NonceReuse")
                => result'[h] = "NonceReuse"]_vars
    /\ []((selfConn /\ BothEnded /\ \A h \in Handshakes : result[h] # "NonceReuse") =>
            \A h \in Handshakes :
                /\ result[h] \in Faults \cup {"ConnectionClosed"}
                /\ ~InLog(h, "ChecksPassed"))
    /\ [](selfConn => \E h \in Handshakes : result[h] # "NonceReuse")

\* the inbound side checked first and failed with NonceReuse; the outbound
\* side passed its check and found the connection closed
C37_Witness ==
    /\ selfConn
    /\ result["in"] = "NonceReuse"
    /\ result["out"] = "ConnectionClosed"
    /\ InLog("out", "ChecksPassed")

(* C38: the addresses of the updates and the peer's Version *)

\* the updates that are no alternate-address updates
NonAlternate(changes) == SelectSeq(changes, LAMBDA u : u.change # "Alternate")

\* the updates the tasks of the connection sent after the handshake
AfterHandshake == SelectSeq(conn_updates, LAMBDA u : u.by # "handshake")

\* C38: the address of the Responded, Errored and Shutdown updates and of the
\* inventory registration is a function of the connected address alone; two
\* runs that differ only in the address_from of the peer's Version emit those
\* updates for identical addresses and differ at most in the
\* alternate-address updates.
C38_AddrOfConnectedAddr ==
    /\ \A i \in DOMAIN conn_updates :
            conn_updates[i].change \in {"Responded", "Errored", "Shutdown"}
                => conn_updates[i].addr = get_address_book_addr(connected_addr)
    /\ \A i \in DOMAIN inv_last : inv_last[i].addr = get_transient_addr(connected_addr)
    /\ \A address_from \in CanonicalAddrs :
            /\ NonAlternate(conn_updates) =
                    NonAlternate(HandshakeChanges(connected_addr, address_from)) \o AfterHandshake
            /\ \A i \in DOMAIN NonAlternate(conn_updates) :
                    NonAlternate(conn_updates)[i].change \in {"Responded", "Errored", "Shutdown"}

\* a peer whose Version gave another port: the alternate address came from the
\* Version, the Responded updates of the handshake and of the inbound stream,
\* the update of the heartbeat task and the inventory registration carry the
\* connected address
C38_Witness ==
    /\ connected_addr = [kind |-> "OutboundDirect", addr |-> ListenAddr]
    /\ \E i \in DOMAIN conn_updates :
            conn_updates[i].change = "Alternate" /\ conn_updates[i].addr # ListenAddr
    /\ \E i \in DOMAIN conn_updates :
            conn_updates[i].by = "handshake" /\ conn_updates[i].change = "Responded"
    /\ \E i \in DOMAIN conn_updates :
            conn_updates[i].by = "inbound" /\ conn_updates[i].addr = ListenAddr
    /\ \E i \in DOMAIN conn_updates :
            conn_updates[i].by = "heartbeat" /\ conn_updates[i].addr = ListenAddr
    /\ inv_count > 0

(* C39: one heartbeat at a time *)

\* a Ping request of the heartbeat task is queued or flushed and its response
\* has not come
PingOutstanding == hb_pc \in {"flush", "response"}

\* the heartbeat task queues a Ping request
QueuesPing == pings' # pings

\* C39: the heartbeat task never queues a new Ping while the response to its
\* previous Ping is pending: a Ping is queued only with none outstanding,
\* the only way from an outstanding Ping back to the interval is its
\* response, and no Ping is queued before the first tick of the interval,
\* which is not ready when the handshake ends.
C39_OnePingOutstanding ==
    /\ [][QueuesPing =>
            /\ pings' = pings + 1
            /\ ~PingOutstanding
            /\ PingOutstanding'
            /\ hb_pc = "interval" => tick /\ ~tick']_vars
    /\ [][(PingOutstanding /\ ~PingOutstanding') =>
            \/ hb_pc = "response" /\ hb_pc' = "interval" /\ pings' = pings
            \/ hb_pc' \in {"errored_send", "shutdown_send", "returned"}]_vars
    /\ [][(hb_pc' = "interval" /\ hb_pc # "interval") => hb_pc = "response"]_vars
    /\ [](hb_pc = "queue" => ~tick)
    /\ [](pings = 0 => hb_pc \notin {"flush", "response"})
    /\ [][(hb_pc \in {"errored_send", "shutdown_send", "returned"}) => pings' = pings]_vars

\* the second Ping was queued at the second tick, after the response to the
\* first, and is waiting for its own response
C39_Witness ==
    /\ pings = 2
    /\ hb_pc = "response"
    /\ ~tick
    /\ shutdown_rx = "open"

(* C40: the nonce check, then the minimum version check *)

\* the Version a handshake has read reuses a nonce of the set and is obsolete
ReusedAndObsolete(h) ==
    /\ remote[h].nonce \in nonces
    /\ remote[h].version < MinimumPeerVersionCurrent(tip)

\* the handshake has been through the critical section of the nonce set
NonceChecked(h) ==
    \/ InLog(h, "ChecksPassed")
    \/ result[h] \in {"NonceReuse", "ObsoleteVersion"}

\* C40: the nonce check precedes the minimum version check and removes the
\* local nonce whatever its outcome: a peer Version that reuses a nonce of the
\* set fails with NonceReuse, an obsolete version included; the check takes
\* the local nonce of the handshake out of the set and nothing else, after a
\* reuse and after none; and the nonce stays out of the set from then on.
C40_NonceCheckFirst ==
    /\ [][\A h \in Handshakes :
            ChecksNonce(h) =>
                /\ ReusedAndObsolete(h) => result'[h] = "NonceReuse"
                /\ (remote[h].nonce \in nonces) <=> (result'[h] = "NonceReuse")
                /\ (result'[h] = "ObsoleteVersion") =>
                        remote[h].nonce \notin nonces
                /\ local_nonce[h] \in nonces
                /\ local_nonce[h] \notin nonces'
                /\ \A n \in nonces : n # local_nonce[h] => n \in nonces'
                /\ nonces' \subseteq nonces
                /\ \A g \in Handshakes \ {h} :
                        (local_nonce[g] \in nonces) <=> (local_nonce[g] \in nonces')]_vars
    /\ [](\A h \in Handshakes : NonceChecked(h) => local_nonce[h] \notin nonces)

\* one handshake has failed with NonceReuse at its check and its nonce is out
\* of the set, the nonce of the other is still in it, and the other is at its
\* own check with a Version that reuses a nonce of the set and is obsolete:
\* the step it can take fails it with NonceReuse
C40_Witness ==
    \E h \in Handshakes :
        /\ result[h] = "NonceReuse"
        /\ local_nonce[h] \notin nonces
        /\ local_nonce[Partner(h)] \in nonces
        /\ pc[Partner(h)] = "check_nonce"
        /\ ReusedAndObsolete(Partner(h))
        /\ ENABLED (CheckNonce(Partner(h)) /\ result'[Partner(h)] = "NonceReuse")

====
